---- MODULE Spec2Model ----
(***************************************************************************)
(* Verification model of the VLM evaluation and ground-truth comparison    *)
(* subsystem of PIP-Manuscripts-Processor:                                 *)
(*   src/04_inference/evaluate_diagrams.py          (driver, adapters)     *)
(*   src/utils/consolidate_predictions_unified.py   (consolidator)         *)
(*   src/06_analysis/compare_vlm_evaluations.py     (model comparison)     *)
(*   src/06_analysis/calculate_morphological_metrics.py                    *)
(*   src/06_analysis/evaluate_against_ground_truth.py (comparators)        *)
(*                                                                         *)
(* Python str values are sequences of tokens.  A token is an atomic piece  *)
(* of text: "_", "-", ".", ":", ".jpg", ".json" are separate tokens, so    *)
(* that str.replace, Path.stem and str.startswith act on the sequence.     *)
(***************************************************************************)
EXTENDS Integers, Sequences, FiniteSets, TLC

VARIABLES
    clock,      \* wall clock in whole seconds (datetime.now(), %Y%m%d_%H%M%S)
    env,        \* credentials present in the process environment
    index,      \* rows of manuscripts_segments_index.csv
    crops,      \* crop image files present under CROPS_DIR
    files,      \* per-diagram result files under OUTPUT_DIR
    summaries,  \* summary.json files under OUTPUT_DIR
    run,        \* one process_diagrams invocation per element of Runs
    calls,      \* history: adapter invocations and network requests per run
    ad,         \* the last direct call of an adapter function
    cons,       \* one consolidate_predictions invocation
    cmp         \* one invocation of a ground-truth comparator

vars ==
    <<clock, env, index, crops, files, summaries, run, calls, ad, cons, cmp>>

\* the variables the driver does not touch
others == <<ad, cons, cmp>>

-----------------------------------------------------------------------------
(* Bounds *)

MaxClock == 1      \* seconds the wall clock advances
MaxRows == 2       \* rows of the segment index

Runs == {"r1", "r2"}

-----------------------------------------------------------------------------
(* Text helpers *)

NoneT == <<"None">>

WhiteSpace == {" ", "\n"}

RECURSIVE LStrip(_)
LStrip(s) ==
    IF s # <<>> /\ Head(s) \in WhiteSpace THEN LStrip(Tail(s)) ELSE s

RECURSIVE RStrip(_)
RStrip(s) ==
    IF s # <<>> /\ s[Len(s)] \in WhiteSpace
    THEN RStrip(SubSeq(s, 1, Len(s) - 1))
    ELSE s

Strip(s) == RStrip(LStrip(s))

StartsWith(s, p) == Len(s) >= Len(p) /\ SubSeq(s, 1, Len(p)) = p

Contains(s, t) == \E k \in 1..Len(s) : s[k] = t

\* str.replace(old, ''), old a single token
Remove(s, old) == SelectSeq(s, LAMBDA t : t # old)

\* str.split(":", 1)[1]
AfterFirstColon(s) ==
    LET k == CHOOSE j \in 1..Len(s) :
                 s[j] = ":" /\ \A h \in 1..(j - 1) : s[h] # ":"
    IN SubSeq(s, k + 1, Len(s))

\* str.lower() on the tokens that have an upper-case form in the model
Lower(t) ==
    CASE t = "A" -> "a"
      [] t = "B" -> "b"
      [] t = "Okay, here's" -> "okay, here's"
      [] t = "Here's" -> "here's"
      [] t = "The answer is" -> "the answer is"
      [] t = "Here is" -> "here is"
      [] t = "Sure," -> "sure,"
      [] OTHER -> t

LowerText(s) == [k \in 1..Len(s) |-> Lower(s[k])]

-----------------------------------------------------------------------------
(* evaluate_diagrams.py: configuration *)

Credentials ==
    {"ANTHROPIC_API_KEY", "GOOGLE_API_KEY", "ACADEMICCLOUD_API_KEY",
     "OPENROUTER_API_KEY"}

MODELS ==
    [claude |-> [model_id |-> <<"claude", "-", "sonnet", "-", "4", "-", "5",
                                "-", "20250929">>,
                 api |-> "anthropic", max_tokens |-> 2048],
     gemini |-> [model_id |-> <<"google/gemini", "-", "3", "-", "pro", "-",
                                "preview">>,
                 api |-> "openrouter", max_tokens |-> 8192],
     gemma  |-> [model_id |-> <<"gemma", "-", "3", "-", "27b", "-", "it">>,
                 api |-> "academiccloud", max_tokens |-> 2048],
     qwen   |-> [model_id |-> <<"qwen2", ".", "5", "-", "vl", "-", "72b", "-",
                                "instruct">>,
                 api |-> "academiccloud", max_tokens |-> 2048]]

\* the credential each API family reads (module constants, lines 23-27,
\* used at lines 222, 340, 411, 518); the local ollama endpoint needs none
KeyOf(api) ==
    CASE api = "anthropic" -> "ANTHROPIC_API_KEY"
      [] api = "google" -> "GOOGLE_API_KEY"
      [] api = "academiccloud" -> "ACADEMICCLOUD_API_KEY"
      [] api = "openrouter" -> "OPENROUTER_API_KEY"
      [] OTHER -> "none"

PROMPTS ==
    [morphological  |-> <<"OUTPUT FORMAT", ":", "JSON only">>,
     indexical      |-> <<"Is there a relationship between the elements">>,
     symbolic       |-> <<"In Peirce's diagrammatic logic">>,
     description    |-> <<"Describe this diagram in detail">>,
     classification |-> <<"What type of diagram is this?">>,
     transcription  |-> <<"Transcribe any text">>]

Preambles ==
    {<<"Okay, here's">>, <<"Here's">>, <<"Here is">>, <<"The answer is", ":">>,
     <<"Sure,">>}

\* clean_vlm_output: None becomes the empty text; a text that starts with a
\* known preamble is cut after its first colon when it has one
clean_vlm_output(text) ==
    IF text = NoneT THEN <<>>
    ELSE IF (\E p \in Preambles :
                StartsWith(LowerText(Strip(text)), LowerText(p)))
            /\ Contains(text, ":")
         THEN Strip(AfterFirstColon(text))
         ELSE Strip(text)

\* CROPS_DIR / 'cropped' / page_stem / f"{page_stem}_cls{class_id}_{idx}.jpg"
CropPath(row) ==
    LET page_stem == Remove(row.page_filename, ".jpg")
    IN <<"cropped", "/">> \o page_stem \o <<"/">> \o page_stem \o <<"_cls">>
       \o row.segment_class_id \o <<"_">> \o row.segment_index \o <<".jpg">>

\* one loaded segment (the pixel box, canvas uri and categories are copied
\* through from the row unchanged and carry no behaviour)
Segment(row) ==
    [manuscript_id |-> row.manuscript_id,
     page_filename |-> row.page_filename,
     segment_index |-> row.segment_index,
     crop_path |-> CropPath(row)]

\* limit is None: no --limit on the command line (the limits given are
\* natural numbers)
NoLimit == -1

\* load_diagram_segments; page_filter NoneT stands for None
RECURSIVE LoadFrom(_, _, _, _, _)
LoadFrom(rows, present, limit, page_filter, diagrams) ==
    IF rows = <<>> THEN diagrams
    ELSE LET row == Head(rows)
             page_stem == Remove(row.page_filename, ".jpg")
         IN IF row.segment_class # "diagram"
            THEN LoadFrom(Tail(rows), present, limit, page_filter, diagrams)
            ELSE IF page_filter # NoneT /\ page_filter # <<>>
                    /\ page_stem # page_filter
            THEN LoadFrom(Tail(rows), present, limit, page_filter, diagrams)
            ELSE IF CropPath(row) \notin present
            THEN LoadFrom(Tail(rows), present, limit, page_filter, diagrams)
            ELSE LET added == Append(diagrams, Segment(row))
                 IN IF limit # NoLimit /\ limit # 0 /\ Len(added) >= limit
                    THEN added
                    ELSE LoadFrom(Tail(rows), present, limit, page_filter,
                                  added)

load_diagram_segments(rows, present, limit, page_filter) ==
    LoadFrom(rows, present, limit, page_filter, <<>>)

-----------------------------------------------------------------------------
(* evaluate_diagrams.py: model adapters *)

(* What the outside world does during one adapter call:                    *)
(*   image_ok  the crop file can be opened and read                        *)
(*   net       "ok", "network_error" or "timeout" of the HTTP round trip   *)
(*   status    HTTP status of the answer                                   *)
(*   body      "text"        the answer carries the text `text`            *)
(*             "null_text"   the text field is missing / content is null   *)
(*             "empty_list"  no content block, candidate or choice         *)
(*             "bad_body"    the body is not the JSON the client expects   *)
NetKinds == {"ok", "network_error", "timeout"}
Statuses == {"200", "429", "500"}
BodyKinds == {"text", "null_text", "empty_list", "bad_body"}

\* str(e) of the exceptions the libraries raise
ErrImage == <<"[Errno 2] No such file or directory">>
ErrClient == <<"The api_key client option must be set">>
ErrNoClient == <<"'NoneType' object has no attribute 'messages'">>
ErrNetwork == <<"Connection error.">>
ErrTimeout == <<"Request timed out.">>
ErrStatus(status) == <<"Error code", ":", " ", status>>
ErrBody == <<"Expecting value">>
ErrIndex == <<"list index out of range">>
ErrAttr == <<"object has no attribute">>

ErrNet(w) == IF w.net = "timeout" THEN ErrTimeout ELSE ErrNetwork

Succeeded(text, finish, cfg) ==
    [success |-> TRUE, response |-> text, error |-> NoneT,
     finish_reason |-> finish, model |-> cfg.model_id]

Failed(err, cfg) ==
    [success |-> FALSE, response |-> NoneT, error |-> err,
     finish_reason |-> NoneT, model |-> cfg.model_id]

\* (the "timestamp" of a result, datetime.now().isoformat(), is copied into
\* the result file, the summary and the consolidated entry and compared by
\* nothing; it is left out)

\* the outcome of a try block: `raise` is str(e) of the exception raised in
\* it (NoneT when it ran to a return), `sent` tells whether the HTTP request
\* left the process, `value` is the dict it returned
Raise(err, sent) == [raise |-> err, sent |-> sent, value |-> NoneT]
Return(value, sent) == [raise |-> NoneT, sent |-> sent, value |-> value]

\* a mutant of Catch: only transport errors are caught
CatchTransportOnly(body, cfg) ==
    IF body.raise \in {ErrNetwork, ErrTimeout}
    THEN [exc |-> NoneT, result |-> Failed(body.raise, cfg),
          sent |-> body.sent]
    ELSE [exc |-> body.raise, result |-> body.value, sent |-> body.sent]

\* `except Exception as e: return {"success": False, "error": str(e), ...}`
\* exc is the exception that leaves the adapter (NoneT: none)
Catch(body, cfg) ==
    IF body.raise # NoneT
    THEN [exc |-> NoneT, result |-> Failed(body.raise, cfg),
          sent |-> body.sent]
    ELSE [exc |-> NoneT, result |-> body.value, sent |-> body.sent]

ClaudeBody(client, w, cfg) ==
    IF ~w.image_ok THEN Raise(ErrImage, FALSE)
    ELSE IF client = "None" THEN Raise(ErrNoClient, FALSE)
    ELSE IF w.net # "ok" THEN Raise(ErrNet(w), TRUE)
    ELSE IF w.status # "200" THEN Raise(ErrStatus(w.status), TRUE)
    ELSE IF w.body = "bad_body" THEN Raise(ErrBody, TRUE)
    ELSE IF w.body = "empty_list" THEN Raise(ErrIndex, TRUE)
    ELSE IF w.body = "null_text" THEN Raise(ErrAttr, TRUE)
    ELSE Return(Succeeded(clean_vlm_output(w.text), NoneT, cfg), TRUE)

evaluate_with_claude(client, w, cfg) ==
    Catch(ClaudeBody(client, w, cfg), cfg)

GeminiBody(w, cfg) ==
    IF ~w.image_ok THEN Raise(ErrImage, FALSE)
    ELSE IF w.net # "ok" THEN Raise(ErrNet(w), TRUE)
    ELSE IF w.status # "200"
    THEN Return(Failed(<<"HTTP ", w.status, ":", " ", "body">>, cfg),
                TRUE)
    ELSE IF w.body = "bad_body" THEN Raise(ErrBody, TRUE)
    ELSE IF w.body = "empty_list"
    THEN Return(Failed(<<"No text in response", ":", " ", "body">>, cfg),
                TRUE)
    ELSE IF w.body = "null_text"
    THEN Return(Succeeded(clean_vlm_output(<<>>), NoneT, cfg), TRUE)
    ELSE Return(Succeeded(clean_vlm_output(w.text), NoneT, cfg), TRUE)

evaluate_with_gemini(w, cfg) == Catch(GeminiBody(w, cfg), cfg)

OllamaBody(w, cfg) ==
    IF ~w.image_ok THEN Raise(ErrImage, FALSE)
    ELSE IF w.net # "ok" THEN Raise(ErrNet(w), TRUE)
    ELSE IF w.status \in {"429", "500"}
    THEN Raise(<<w.status, " ", "Error">>, TRUE)
    ELSE IF w.body = "bad_body" THEN Raise(ErrBody, TRUE)
    ELSE IF w.body = "empty_list" THEN Raise(ErrAttr, TRUE)
    ELSE IF w.body = "null_text"
    THEN Return(Succeeded(clean_vlm_output(<<>>), NoneT, cfg), TRUE)
    ELSE Return(Succeeded(clean_vlm_output(w.text), NoneT, cfg), TRUE)

evaluate_with_ollama(w, cfg) == Catch(OllamaBody(w, cfg), cfg)

\* the body shared by the two OpenAI-compatible adapters; has_key tells
\* whether the adapter's credential is set (OpenAI(api_key=None) raises)
OpenAIBody(has_key, w, cfg, with_finish) ==
    IF ~has_key THEN Raise(ErrClient, FALSE)
    ELSE IF ~w.image_ok THEN Raise(ErrImage, FALSE)
    ELSE IF w.net # "ok" THEN Raise(ErrNet(w), TRUE)
    ELSE IF w.status # "200" THEN Raise(ErrStatus(w.status), TRUE)
    ELSE IF w.body = "bad_body" THEN Raise(ErrBody, TRUE)
    ELSE IF w.body = "empty_list" THEN Raise(ErrIndex, TRUE)
    ELSE LET text == IF w.body = "null_text" THEN NoneT ELSE w.text
             finish == IF with_finish THEN <<"stop">> ELSE NoneT
         IN Return(Succeeded(clean_vlm_output(text), finish, cfg), TRUE)

evaluate_with_openrouter(keys, w, cfg) ==
    Catch(OpenAIBody("OPENROUTER_API_KEY" \in keys, w, cfg, TRUE),
          cfg)

evaluate_with_academiccloud(keys, w, cfg) ==
    Catch(OpenAIBody("ACADEMICCLOUD_API_KEY" \in keys, w, cfg, FALSE),
          cfg)

\* evaluate_diagram: dispatch on the api family of the model
Dispatch(cfg, client, keys, w) ==
    CASE cfg.api = "anthropic" -> evaluate_with_claude(client, w, cfg)
      [] cfg.api = "google" -> evaluate_with_gemini(w, cfg)
      [] cfg.api = "ollama" -> evaluate_with_ollama(w, cfg)
      [] cfg.api = "academiccloud" ->
             evaluate_with_academiccloud(keys, w, cfg)
      [] cfg.api = "openrouter" -> evaluate_with_openrouter(keys, w, cfg)
      [] OTHER ->
             [exc |-> NoneT,
              result |-> [success |-> FALSE, response |-> NoneT,
                          error |-> <<"Unknown API", ":", " ", cfg.api>>,
                          finish_reason |-> NoneT, model |-> NoneT],
              sent |-> FALSE]

evaluate_diagram(client, keys, w, model_name) ==
    Dispatch(MODELS[model_name], client, keys, w)

-----------------------------------------------------------------------------
(* evaluate_diagrams.py: the evaluation driver, process_diagrams *)

\* model_config['model_id'].replace(':', '_').replace('.', '_').replace('-', '_')
Sanitize(model_id) ==
    [k \in 1..Len(model_id) |->
        IF model_id[k] \in {":", ".", "-"} THEN "_" ELSE model_id[k]]

\* OUTPUT_DIR / model_clean / f"eval_{timestamp}"
OutputDir(model_name, timestamp) ==
    [model |-> Sanitize(MODELS[model_name].model_id), ts |-> timestamp]

\* a mutant of DiagramId: the page is left out of the identifier
DiagramIdWithoutPage(d) == d.manuscript_id \o <<"_">> \o d.segment_index

\* f"{manuscript_id}_{page_filename.replace('.jpg', '')}_{segment_index}"
DiagramId(d) ==
    d.manuscript_id \o <<"_">> \o Remove(d.page_filename, ".jpg") \o <<"_">>
    \o d.segment_index

\* f"{diagram_id}.json"
ResultFileName(diagram_id) == diagram_id \o <<".json">>

\* custom_prompt if custom_prompt else PROMPTS.get(prompt_key, morphological)
PromptFor(custom_prompt, prompt_key) ==
    IF custom_prompt # NoneT /\ custom_prompt # <<>> THEN custom_prompt
    ELSE IF prompt_key \in DOMAIN PROMPTS THEN PROMPTS[prompt_key]
    ELSE PROMPTS["morphological"]

FileExists(dir, name) == \E f \in files : f.dir = dir /\ f.name = name

\* open(output_file, 'w') + json.dump: creates or replaces the file
WriteFile(fs, dir, name, content, writer) ==
    {f \in fs : ~(f.dir = dir /\ f.name = name)}
    \cup {[dir |-> dir, name |-> name, content |-> content,
           writer |-> writer]}

WriteSummary(ss, dir, summary, writer) ==
    {s \in ss : s.dir # dir}
    \cup {[dir |-> dir, summary |-> summary, writer |-> writer]}

\* {'diagram_id': diagram_id, **result}
ResultEntry(diagram_id, result) ==
    [diagram_id |-> diagram_id, success |-> result.success,
     response |-> result.response, error |-> result.error,
     finish_reason |-> result.finish_reason, model |-> result.model]

FreshRun ==
    [pc |-> "init", model_name |-> "", prompt |-> <<>>, client |-> "None",
     diagrams |-> <<>>, timestamp |-> 0, i |-> 1, results |-> <<>>,
     successful |-> 0, failed |-> 0, sleeps |-> 0]

\* history of a run: the diagram ids handed to evaluate_diagram, the HTTP
\* requests sent, what happened at each position of the segment list, and
\* the runs that had finished when this one started
NoCalls == [invoked |-> <<>>, requests |-> 0, trace |-> <<>>, after |-> {}]

Dir(r) == OutputDir(run[r].model_name, run[r].timestamp)

Current(r) == run[r].diagrams[run[r].i]

\* the inputs of the command line that the model explores
ModelArgs == {"claude", "gemini", "gemma", "qwen", "gpt4"}
PromptKeys == {"morphological", "symbolic"}
Limits == {NoLimit, 1}

\* lines 501-504: unknown model name
UnknownModel(r, model_name) ==
    /\ run[r].pc = "init"
    /\ model_name \notin DOMAIN MODELS
    /\ run' = [run EXCEPT ![r].pc = "aborted"]
    /\ UNCHANGED <<clock, env, index, crops, files, summaries, calls>>
    /\ UNCHANGED others

\* lines 513-524: the credential of the anthropic / google family is unset
MissingKey(r, model_name) ==
    /\ run[r].pc = "init"
    /\ model_name \in DOMAIN MODELS
    /\ MODELS[model_name].api \in {"anthropic", "google"}
    /\ KeyOf(MODELS[model_name].api) \notin env
    /\ run' = [run EXCEPT ![r].pc = "aborted"]
    /\ UNCHANGED <<clock, env, index, crops, files, summaries, calls>>
    /\ UNCHANGED others

\* lines 506-554: client, segments, output directory, counters
StartRun(r, model_name, prompt_key, limit) ==
    /\ run[r].pc = "init"
    /\ model_name \in DOMAIN MODELS
    /\ MODELS[model_name].api \in {"anthropic", "google"}
           => KeyOf(MODELS[model_name].api) \in env
    /\ run' = [run EXCEPT ![r] =
                 [pc |-> "loop", model_name |-> model_name,
                  prompt |-> PromptFor(NoneT, prompt_key),
                  client |-> IF MODELS[model_name].api
                                  \in {"anthropic", "google"}
                             THEN "client" ELSE "None",
                  diagrams |-> load_diagram_segments(index, crops, limit,
                                                     NoneT),
                  timestamp |-> clock, i |-> 1, results |-> <<>>,
                  successful |-> 0, failed |-> 0, sleeps |-> 0]]
    /\ calls' = [calls EXCEPT ![r].after =
                    {q \in Runs : run[q].pc = "done"}]
    /\ UNCHANGED <<clock, env, index, crops, files, summaries>>
    /\ UNCHANGED others

\* a mutant of CropMissing: the missing crop is recorded in results
CropMissingRecorded(r) ==
    /\ run[r].pc = "loop"
    /\ run[r].i <= Len(run[r].diagrams)
    /\ Current(r).crop_path \notin crops
    /\ run' = [run EXCEPT
                 ![r].failed = @ + 1, ![r].i = @ + 1,
                 ![r].results =
                     Append(@, ResultEntry(DiagramId(Current(r)),
                                           Failed(ErrImage,
                                                  MODELS[run[r].model_name])))]
    /\ calls' = [calls EXCEPT ![r].trace = Append(@, "missing")]
    /\ UNCHANGED <<clock, env, index, crops, files, summaries>>
    /\ UNCHANGED others

\* a mutant of CropMissing: the segment is passed over without a count
CropMissingUncounted(r) ==
    /\ run[r].pc = "loop"
    /\ run[r].i <= Len(run[r].diagrams)
    /\ Current(r).crop_path \notin crops
    /\ run' = [run EXCEPT ![r].i = @ + 1]
    /\ calls' = [calls EXCEPT ![r].trace = Append(@, "missing")]
    /\ UNCHANGED <<clock, env, index, crops, files, summaries>>
    /\ UNCHANGED others

\* lines 562-566: the crop disappeared after the segments were loaded
CropMissing(r) ==
    /\ run[r].pc = "loop"
    /\ run[r].i <= Len(run[r].diagrams)
    /\ Current(r).crop_path \notin crops
    /\ run' = [run EXCEPT ![r].failed = @ + 1, ![r].i = @ + 1]
    /\ calls' = [calls EXCEPT ![r].trace = Append(@, "missing")]
    /\ UNCHANGED <<clock, env, index, crops, files, summaries>>
    /\ UNCHANGED others

\* a mutant of SkipExisting: the segment is evaluated again
SkipExistingReinvoke(r) ==
    /\ run[r].pc = "loop"
    /\ run[r].i <= Len(run[r].diagrams)
    /\ Current(r).crop_path \in crops
    /\ FileExists(Dir(r), ResultFileName(DiagramId(Current(r))))
    /\ run' = [run EXCEPT ![r].pc = "evaluating"]
    /\ calls' = [calls EXCEPT ![r].invoked =
                    Append(@, DiagramId(Current(r)))]
    /\ UNCHANGED <<clock, env, index, crops, files, summaries>>
    /\ UNCHANGED others

\* lines 568-573: a result file of that name is already in the run directory
SkipExisting(r) ==
    /\ run[r].pc = "loop"
    /\ run[r].i <= Len(run[r].diagrams)
    /\ Current(r).crop_path \in crops
    /\ FileExists(Dir(r), ResultFileName(DiagramId(Current(r))))
    /\ run' = [run EXCEPT ![r].successful = @ + 1, ![r].i = @ + 1]
    /\ calls' = [calls EXCEPT ![r].trace = Append(@, "skipped")]
    /\ UNCHANGED <<clock, env, index, crops, files, summaries>>
    /\ UNCHANGED others

\* line 576, call: evaluate_diagram is entered
Invoke(r) ==
    /\ run[r].pc = "loop"
    /\ run[r].i <= Len(run[r].diagrams)
    /\ Current(r).crop_path \in crops
    /\ ~FileExists(Dir(r), ResultFileName(DiagramId(Current(r))))
    /\ run' = [run EXCEPT ![r].pc = "evaluating"]
    /\ calls' = [calls EXCEPT ![r].invoked =
                    Append(@, DiagramId(Current(r)))]
    /\ UNCHANGED <<clock, env, index, crops, files, summaries>>
    /\ UNCHANGED others

\* a mutant of Persist: results are kept in memory, no file is written
PersistBuffered(fs, dir, d, prompt, result, writer) == fs

\* a mutant of Persist: the result file is written whatever the outcome
PersistAlways(fs, dir, d, prompt, result, writer) ==
    WriteFile(fs, dir, ResultFileName(DiagramId(d)),
        [manuscript_id |-> d.manuscript_id,
         page_filename |-> d.page_filename,
         segment_index |-> d.segment_index, crop_path |-> d.crop_path,
         prompt |-> prompt, evaluation |-> result.response,
         model |-> result.model], writer)

\* lines 579-594: a successful result is written to its own file at once
Persist(fs, dir, d, prompt, result, writer) ==
    IF result.success
    THEN WriteFile(fs, dir, ResultFileName(DiagramId(d)),
             [manuscript_id |-> d.manuscript_id,
              page_filename |-> d.page_filename,
              segment_index |-> d.segment_index, crop_path |-> d.crop_path,
              prompt |-> prompt, evaluation |-> result.response,
              model |-> result.model], writer)
    ELSE fs

\* a mutant of NextPosition: the loop is left after a failed evaluation
NextPositionBreakOnFailure(i, n, result) ==
    IF result.success THEN i + 1 ELSE n + 1

\* line 556 after lines 595-602: the loop goes on to the next segment
\* whatever the result was
NextPosition(i, n, result) == i + 1

\* lines 576-606: the adapter returns; persist or count the failure, record
\* the outcome, sleep unless this was the last segment
Evaluated(r, world) ==
    /\ run[r].pc = "evaluating"
    /\ LET d == Current(r)
           w == [world EXCEPT !.image_ok = @ /\ d.crop_path \in crops]
           out == evaluate_diagram(run[r].client, env, w, run[r].model_name)
           result == out.result
           diagram_id == DiagramId(d)
       IN /\ calls' = [calls EXCEPT
                        ![r].requests = @ + (IF out.sent THEN 1 ELSE 0),
                        ![r].trace =
                            Append(@, IF out.exc # NoneT THEN "raised"
                                      ELSE IF result.success THEN "ok"
                                      ELSE "failed")]
          /\ IF out.exc # NoneT
             THEN /\ run' = [run EXCEPT ![r].pc = "crashed"]
                  /\ UNCHANGED files
             ELSE /\ files' = Persist(files, Dir(r), d, run[r].prompt,
                                      result, r)
                  /\ run' = [run EXCEPT
                        ![r].pc = "loop",
                        ![r].successful =
                            IF result.success THEN @ + 1 ELSE @,
                        ![r].failed = IF result.success THEN @ ELSE @ + 1,
                        ![r].results =
                            Append(@, ResultEntry(diagram_id, result)),
                        ![r].sleeps =
                            IF run[r].i < Len(run[r].diagrams)
                            THEN @ + 1 ELSE @,
                        ![r].i = NextPosition(@, Len(run[r].diagrams),
                                              result)]
    /\ UNCHANGED <<clock, env, index, crops, summaries>>
    /\ UNCHANGED others

\* lines 608-621: summary.json is written once the loop is over
Summarize(r) ==
    /\ run[r].pc = "loop"
    /\ run[r].i > Len(run[r].diagrams)
    /\ summaries' =
           WriteSummary(summaries, Dir(r),
               [model |-> MODELS[run[r].model_name].model_id,
                prompt |-> run[r].prompt,
                total_diagrams |-> Len(run[r].diagrams),
                successful |-> run[r].successful,
                failed |-> run[r].failed,
                timestamp |-> run[r].timestamp,
                results |-> run[r].results], r)
    /\ run' = [run EXCEPT ![r].pc = "done"]
    /\ UNCHANGED <<clock, env, index, crops, files, calls>>
    /\ UNCHANGED others

\* the wall clock reaches the next second; an invocation reads it once, when
\* it starts (line 535), so only the seconds that pass while one of the
\* invocations `waiting` is yet to start are followed
Tick(waiting) ==
    /\ clock < MaxClock
    /\ \E r \in waiting : run[r].pc = "init"
    /\ clock' = clock + 1
    /\ UNCHANGED <<env, index, crops, files, summaries, run, calls>>
    /\ UNCHANGED others

\* a crop image is removed by something outside the driver
RemoveCrop(c) ==
    /\ c \in crops
    /\ crops' = crops \ {c}
    /\ UNCHANGED <<clock, env, index, files, summaries, run, calls>>
    /\ UNCHANGED others

-----------------------------------------------------------------------------
(* The driver's environment and specification *)

NoCall == [fn |-> "none"]

\* no consolidation has started
ConsIdle ==
    [pc |-> "idle", eval_type |-> "", date_filter |-> -1, m |-> 1,
     eval_dirs |-> <<>>, todo |-> {}, seen |-> {}, evaluations |-> <<>>,
     output |-> <<>>]

\* no comparison has started
NoComparison == [pc |-> "idle"]

MS == <<"hou02614c00458">>
Page == <<"seq15", ".jpg">>

Row(class, class_id, segment_index) ==
    [segment_class |-> class, segment_class_id |-> <<class_id>>,
     segment_index |-> <<segment_index>>, page_filename |-> Page,
     manuscript_id |-> MS]

Rows == {Row("diagram", "0", "0"), Row("diagram", "0", "1"),
         Row("text", "1", "0")}

IndexChoices ==
    UNION {[1..n -> Rows] : n \in 1..MaxRows}

\* every credential is set, or one of them is missing
EnvChoices ==
    {Credentials} \cup {Credentials \ {key} : key \in Credentials}

\* a model's answer to the morphological prompt:
\* {"cuts":{"count":2,"nested":true},"lines":{"count":1,"branching":false},
\*  "spots":{"count":1,"labels":["man"]}}
TextJson ==
    <<"{", "\"cuts\"", ":", "{", "\"count\"", ":", "2", ",", "\"nested\"",
      ":", "true", "}", ",", "\"lines\"", ":", "{", "\"count\"", ":", "1",
      ",", "\"branching\"", ":", "false", "}", ",", "\"spots\"", ":", "{",
      "\"count\"", ":", "1", ",", "\"labels\"", ":", "[", "\"man\"", "]",
      "}", "}">>

\* what the provider does in the driver runs: an answer with text, or 429
DriverWorlds ==
    {[image_ok |-> TRUE, net |-> "ok", status |-> st, body |-> "text",
      text |-> TextJson] : st \in {"200", "429"}}

Init ==
    /\ clock = 0
    /\ env \in EnvChoices
    /\ index \in IndexChoices
    /\ crops = {CropPath(index[k]) : k \in 1..Len(index)}
    /\ files = {}
    /\ summaries = {}
    /\ run = [r \in Runs |-> FreshRun]
    /\ calls = [r \in Runs |-> NoCalls]
    /\ ad = NoCall
    /\ cons = ConsIdle
    /\ cmp = NoComparison

\* one invocation of the driver, any command line, any environment
Next ==
    \/ Tick({"r1"})
    \/ \E c \in crops : RemoveCrop(c)
    \/ \E m \in ModelArgs : UnknownModel("r1", m)
    \/ \E m \in ModelArgs : MissingKey("r1", m)
    \/ \E m \in ModelArgs, k \in PromptKeys, l \in Limits :
           StartRun("r1", m, k, l)
    \/ CropMissing("r1")
    \/ SkipExisting("r1")
    \/ Invoke("r1")
    \/ \E w \in DriverWorlds : Evaluated("r1", w)
    \/ Summarize("r1")

Spec == Init /\ [][Next]_vars

-----------------------------------------------------------------------------
(* Identity of a diagram in the later stages *)

IsSuffix(t) == t \in {".jpg", ".json", ".png"}

\* pathlib: Path.stem, the file name without its last suffix
Stem(name) ==
    IF Len(name) > 1 /\ IsSuffix(name[Len(name)])
    THEN SubSeq(name, 1, Len(name) - 1)
    ELSE name

\* consolidate_predictions_unified.py line 131 (and the ground-truth
\* loaders): diagram_id = json_file.stem
ConsolidatorDiagramId(name) == Stem(name)

\* compare_vlm_evaluations.py line 67:
\* diagram_id = f"{data['page_filename']}_{data['segment_index']}"
CompareDiagramId(data) ==
    data.page_filename \o <<"_">> \o data.segment_index

-----------------------------------------------------------------------------
(* Claims about one invocation *)

Started(r) == run[r].pc \notin {"init", "aborted"}

Entries(results) == {results[k] : k \in 1..Len(results)}

\* C3: every position of the segment list is processed however many
\* earlier evaluations failed, every failed evaluation is a success=false
\* entry of the summary's results, and summary.json is written at the end
C3_FailureDoesNotAbort ==
    \A r \in Runs :
        /\ run[r].pc # "crashed"
        /\ run[r].pc = "loop" => Len(calls[r].trace) = run[r].i - 1
        /\ run[r].pc = "done" =>
              /\ Len(calls[r].trace) = Len(run[r].diagrams)
              /\ \E s \in summaries :
                    /\ s.dir = Dir(r)
                    /\ s.writer = r
                    /\ s.summary.total_diagrams = Len(run[r].diagrams)
                    /\ \A k \in 1..Len(calls[r].trace) :
                          calls[r].trace[k] = "failed" =>
                              \E e \in Entries(s.summary.results) :
                                  /\ e.diagram_id
                                         = DiagramId(run[r].diagrams[k])
                                  /\ ~e.success

C3_Witness ==
    /\ run["r1"].pc = "done"
    /\ calls["r1"].trace = <<"failed", "ok">>
    /\ \E s \in summaries : s.dir = Dir("r1") /\ s.summary.failed = 1

\* C4: for each of claude, gemini, gemma and qwen, when the credential of
\* the model's API family is absent the run aborts before any work: no
\* adapter is invoked, no request is sent, no result file is written
C4_MissingCredentialAborts ==
    \A r \in Runs :
        (Started(r) /\ KeyOf(MODELS[run[r].model_name].api) \notin env) =>
            /\ calls[r].invoked = <<>>
            /\ calls[r].requests = 0
            /\ \A f \in files : f.writer # r

\* C7: the diagram_id the driver names a result file by is the diagram_id
\* the consolidator derives from that file and the key of the comparison
\* script for it
C7_DiagramIdStable ==
    \A f \in files :
        /\ f.name = ResultFileName(DiagramId(f.content))
        /\ ConsolidatorDiagramId(f.name) = DiagramId(f.content)
        /\ CompareDiagramId(f.content) = DiagramId(f.content)

-----------------------------------------------------------------------------
(* Two invocations of the driver, one after the other or at the same time *)

PairRows == 1      \* rows of the segment index when two invocations run

PairModels == {"claude", "gemma"}

InitPair ==
    /\ clock = 0
    /\ env = Credentials
    /\ index \in UNION {[1..n -> {row \in Rows :
                                     row.segment_class = "diagram"}] :
                          n \in 1..PairRows}
    /\ crops = {CropPath(index[k]) : k \in 1..Len(index)}
    /\ files = {}
    /\ summaries = {}
    /\ run = [r \in Runs |-> FreshRun]
    /\ calls = [r \in Runs |-> NoCalls]
    /\ ad = NoCall
    /\ cons = ConsIdle
    /\ cmp = NoComparison

\* runs are named in the order in which they are started
MayStart(r) == r = "r2" => run["r1"].pc # "init"

\* an invocation with the default prompt and no limit
StartInOrder(r, model_name) ==
    /\ MayStart(r)
    /\ StartRun(r, model_name, "morphological", NoLimit)

NextPair ==
    \/ Tick(Runs)
    \/ \E c \in crops : RemoveCrop(c)
    \/ \E r \in Runs, m \in PairModels : StartInOrder(r, m)
    \/ \E r \in Runs : CropMissing(r)
    \/ \E r \in Runs : SkipExisting(r)
    \/ \E r \in Runs : Invoke(r)
    \/ \E r \in Runs, w \in DriverWorlds : Evaluated(r, w)
    \/ \E r \in Runs : Summarize(r)

SpecPair == InitPair /\ [][NextPair]_vars

-----------------------------------------------------------------------------
(* Claims about two invocations *)

SucceededIn(r, diagram_id) ==
    \E e \in Entries(run[r].results) : e.diagram_id = diagram_id /\ e.success

FailedIn(r, diagram_id) ==
    \E e \in Entries(run[r].results) : e.diagram_id = diagram_id /\ ~e.success

\* C1: a second invocation for the same model and prompt, made after the
\* first has finished and with nothing cleared, invokes no adapter for a
\* diagram the first evaluated successfully and adds no result file for it
C1_SecondRunIsIdempotent ==
    \A r, q \in Runs :
        (/\ Started(q)
         /\ r \in calls[q].after
         /\ run[q].model_name = run[r].model_name
         /\ run[q].prompt = run[r].prompt) =>
            /\ \A k \in 1..Len(calls[q].invoked) :
                   ~SucceededIn(r, calls[q].invoked[k])
            /\ \A f \in files :
                   f.writer = q => ~SucceededIn(r, Stem(f.name))

\* C2: two distinct invocations never use the same run directory
C2_DistinctRunDirectories ==
    \A r, q \in Runs :
        (r # q /\ Started(r) /\ Started(q)) => Dir(r) # Dir(q)

FailedEntries(results) == {k \in 1..Len(results) : ~results[k].success}

-----------------------------------------------------------------------------
(* The adapter functions called on their own, on any outcome of the world *)

TextPreamble == <<"Here's", " ", "the JSON", ":", " ">> \o TextJson
TextPadded == <<" ">> \o TextJson \o <<"\n">>

AdapterTexts == {TextJson, TextPreamble, TextPadded}

AllWorlds ==
    [image_ok : BOOLEAN, net : NetKinds, status : Statuses, body : BodyKinds,
     text : AdapterTexts]

Configs == {MODELS[m] : m \in DOMAIN MODELS}

\* what one call leaves behind; raised is str(e) of the exception raised
\* inside the try block
Called(fn, w, body, out) ==
    [fn |-> fn, world |-> w, raised |-> body.raise, out |-> out]

\* no adapter has been called yet, and a call touches nothing else
FirstCall ==
    /\ ad = NoCall
    /\ UNCHANGED <<clock, env, index, crops, files, summaries, run, calls>>
    /\ UNCHANGED <<cons, cmp>>

CallClaude(client, w, cfg) ==
    /\ FirstCall
    /\ ad' = Called("evaluate_with_claude", w, ClaudeBody(client, w, cfg),
                    evaluate_with_claude(client, w, cfg))

CallGemini(w, cfg) ==
    /\ FirstCall
    /\ ad' = Called("evaluate_with_gemini", w, GeminiBody(w, cfg),
                    evaluate_with_gemini(w, cfg))

CallOllama(w, cfg) ==
    /\ FirstCall
    /\ ad' = Called("evaluate_with_ollama", w, OllamaBody(w, cfg),
                    evaluate_with_ollama(w, cfg))

CallOpenRouter(w, cfg) ==
    /\ FirstCall
    /\ ad' = Called("evaluate_with_openrouter", w,
                    OpenAIBody("OPENROUTER_API_KEY" \in env, w, cfg, TRUE),
                    evaluate_with_openrouter(env, w, cfg))

CallAcademicCloud(w, cfg) ==
    /\ FirstCall
    /\ ad' = Called("evaluate_with_academiccloud", w,
                    OpenAIBody("ACADEMICCLOUD_API_KEY" \in env, w, cfg,
                               FALSE),
                    evaluate_with_academiccloud(env, w, cfg))

InitAdapters ==
    /\ clock = 0
    /\ env \in EnvChoices
    /\ index = <<>>
    /\ crops = {}
    /\ files = {}
    /\ summaries = {}
    /\ run = [r \in Runs |-> FreshRun]
    /\ calls = [r \in Runs |-> NoCalls]
    /\ ad = NoCall
    /\ cons = ConsIdle
    /\ cmp = NoComparison

NextAdapters ==
    \/ \E c \in {"client", "None"}, w \in AllWorlds, cfg \in Configs :
           CallClaude(c, w, cfg)
    \/ \E w \in AllWorlds, cfg \in Configs : CallGemini(w, cfg)
    \/ \E w \in AllWorlds, cfg \in Configs : CallOllama(w, cfg)
    \/ \E w \in AllWorlds, cfg \in Configs : CallOpenRouter(w, cfg)
    \/ \E w \in AllWorlds, cfg \in Configs : CallAcademicCloud(w, cfg)

SpecAdapters == InitAdapters /\ [][NextAdapters]_vars

\* C6: every adapter returns a result record whatever fails inside it; when
\* an error was raised the record has success = false and error = str(e),
\* and no exception leaves the adapter
C6_AdaptersNeverRaise ==
    ad # NoCall =>
        /\ ad.out.exc = NoneT
        /\ ad.out.result.success \in BOOLEAN
        /\ ad.raised # NoneT =>
              /\ ~ad.out.result.success
              /\ ad.out.result.error = ad.raised
              /\ ad.out.result.response = NoneT

\* the client cannot be constructed (no key), the image is unreadable, or
\* the body of the answer is malformed
C6_Witness ==
    /\ ad # NoCall
    /\ ad.fn = "evaluate_with_academiccloud"
    /\ ad.raised \in {ErrClient, ErrImage, ErrBody}
    /\ ~ad.out.result.success
    /\ ad.out.result.error = ad.raised

-----------------------------------------------------------------------------
(* JSON values and json.loads *)

(* A parsed JSON value is a tagged tuple:                                  *)
(*   <<"null">>  <<"bool", "true">>  <<"num", "2">>  <<"str", "man">>      *)
(*   <<"arr", sequence of values>>  <<"obj", function from keys to values>>*)
NullV == <<"null">>
TrueV == <<"bool", "true">>
FalseV == <<"bool", "false">>
Num(n) == <<"num", n>>
Str(x) == <<"str", x>>
Arr(xs) == <<"arr", xs>>
Obj(f) == <<"obj", f>>

EmptyMap == [k \in {} |-> NullV]

IsDict(v) == v[1] = "obj"

\* dict.get(key, default)
Get(v, key, default) == IF key \in DOMAIN v[2] THEN v[2][key] ELSE default

\* `not v` of Python
Falsy(v) ==
    \/ v = NullV
    \/ v = FalseV
    \/ v = Num("0")
    \/ v = Str(<<>>)
    \/ v[1] = "arr" /\ v[2] = <<>>
    \/ v[1] = "obj" /\ DOMAIN v[2] = {}

\* the tokens of JSON text: string literals (quoted) and number literals
Unquote(tok) ==
    CASE tok = "\"cuts\"" -> "cuts"
      [] tok = "\"lines\"" -> "lines"
      [] tok = "\"spots\"" -> "spots"
      [] tok = "\"count\"" -> "count"
      [] tok = "\"nested\"" -> "nested"
      [] tok = "\"branching\"" -> "branching"
      [] tok = "\"labels\"" -> "labels"
      [] tok = "\"man\"" -> "man"
      [] tok = "\"wounded\"" -> "wounded"
      [] OTHER -> ""

IsStringTok(tok) == Unquote(tok) # ""

IsNumberTok(tok) == tok \in {"0", "1", "2", "3"}

RECURSIVE SkipWs(_, _)
SkipWs(t, p) ==
    IF p <= Len(t) /\ t[p] \in WhiteSpace THEN SkipWs(t, p + 1) ELSE p

NoParse == [ok |-> FALSE, val |-> NullV, next |-> 0]

Parsed(v, next) == [ok |-> TRUE, val |-> v, next |-> next]

\* the recursive descent of the JSON decoder: the value that starts at
\* position p, and the position after it
RECURSIVE ParseValue(_, _)
RECURSIVE ParsePairs(_, _, _)
RECURSIVE ParseItems(_, _, _)

ParseValue(t, p) ==
    LET q == SkipWs(t, p)
    IN IF q > Len(t) THEN NoParse
       ELSE IF t[q] = "{"
       THEN LET a == SkipWs(t, q + 1)
            IN IF a <= Len(t) /\ t[a] = "}"
               THEN Parsed(Obj(EmptyMap), a + 1)
               ELSE ParsePairs(t, a, EmptyMap)
       ELSE IF t[q] = "["
       THEN LET a == SkipWs(t, q + 1)
            IN IF a <= Len(t) /\ t[a] = "]"
               THEN Parsed(Arr(<<>>), a + 1)
               ELSE ParseItems(t, a, <<>>)
       ELSE IF IsStringTok(t[q]) THEN Parsed(Str(<<Unquote(t[q])>>), q + 1)
       ELSE IF IsNumberTok(t[q]) THEN Parsed(Num(t[q]), q + 1)
       ELSE IF t[q] = "true" THEN Parsed(TrueV, q + 1)
       ELSE IF t[q] = "false" THEN Parsed(FalseV, q + 1)
       ELSE IF t[q] = "null" THEN Parsed(NullV, q + 1)
       ELSE NoParse

\* "key": value pairs up to the closing brace; a later key replaces an
\* earlier one
ParsePairs(t, p, acc) ==
    LET k == SkipWs(t, p)
        c == SkipWs(t, k + 1)
    IN IF k > Len(t) \/ c > Len(t) THEN NoParse
       ELSE IF ~IsStringTok(t[k]) \/ t[c] # ":" THEN NoParse
       ELSE LET v == ParseValue(t, c + 1)
                e == SkipWs(t, v.next)
                acc2 == (Unquote(t[k]) :> v.val) @@ acc
            IN IF ~v.ok \/ e > Len(t) THEN NoParse
               ELSE IF t[e] = "}" THEN Parsed(Obj(acc2), e + 1)
               ELSE IF t[e] = "," THEN ParsePairs(t, e + 1, acc2)
               ELSE NoParse

ParseItems(t, p, acc) ==
    LET v == ParseValue(t, p)
        e == SkipWs(t, v.next)
    IN IF ~v.ok \/ e > Len(t) THEN NoParse
       ELSE IF t[e] = "]" THEN Parsed(Arr(Append(acc, v.val)), e + 1)
       ELSE IF t[e] = "," THEN ParseItems(t, e + 1, Append(acc, v.val))
       ELSE NoParse

\* json.loads: ok is false where it raises JSONDecodeError
JsonLoads(t) ==
    LET v == ParseValue(t, 1)
    IN IF v.ok /\ SkipWs(t, v.next) > Len(t) THEN v ELSE NoParse

-----------------------------------------------------------------------------
(* consolidate_predictions_unified.py *)

\* the least element of a non-empty set of positions
Least(S) == CHOOSE x \in S : \A y \in S : x <= y

\* the token of a markdown code fence (three backquotes)
Fence == "<fence>"

\* the first pattern of line 60 (a fence, an optional "json", white space,
\* a brace pair, white space, a fence) tried at the fence at position i:
\* the position of the opening brace, 0 when the pattern cannot start there
FenceOpen(t, i) ==
    LET a == IF i + 1 <= Len(t) /\ t[i + 1] = "json" THEN i + 2 ELSE i + 1
        j == SkipWs(t, a)
    IN IF t[i] = Fence /\ j <= Len(t) /\ t[j] = "{" THEN j ELSE 0

\* the closing braces that are followed by optional white space and a fence
FenceCloses(t, j) ==
    {k \in (j + 1)..Len(t) :
        /\ t[k] = "}"
        /\ LET e == SkipWs(t, k + 1) IN e <= Len(t) /\ t[e] = Fence}

\* re.search of the fence pattern: group 1 of the leftmost match, the
\* shortest one from there (the group is lazy); NoneT when there is none
FenceSearch(t) ==
    LET starts == {i \in 1..Len(t) :
                     FenceOpen(t, i) # 0 /\ FenceCloses(t, FenceOpen(t, i)) # {}}
    IN IF starts = {} THEN NoneT
       ELSE LET j == FenceOpen(t, Least(starts))
            IN SubSeq(t, j, Least(FenceCloses(t, j)))

\* the second pattern, line 65: a brace pair with no brace inside and the
\* keys cuts, lines, spots in this order
FlatClose(t, i) ==
    LET braces == {k \in (i + 1)..Len(t) : t[k] \in {"{", "}"}}
    IN IF t[i] # "{" \/ braces = {} THEN 0
       ELSE LET k == Least(braces)
            IN IF /\ t[k] = "}"
                  /\ \E a, b, c \in (i + 1)..(k - 1) :
                        /\ a < b /\ b < c
                        /\ t[a] = "\"cuts\"" /\ t[b] = "\"lines\""
                        /\ t[c] = "\"spots\""
               THEN k ELSE 0

FlatSearch(t) ==
    LET starts == {i \in 1..Len(t) : FlatClose(t, i) # 0}
    IN IF starts = {} THEN NoneT
       ELSE SubSeq(t, Least(starts), FlatClose(t, Least(starts)))

\* lines 55-75; the result is NullV for None
extract_json_from_evaluation(evaluation_text) ==
    IF evaluation_text = NoneT \/ evaluation_text = <<>> THEN NullV
    ELSE LET json_str ==
                 IF FenceSearch(evaluation_text) # NoneT
                 THEN FenceSearch(evaluation_text)
                 ELSE IF FlatSearch(evaluation_text) # NoneT
                 THEN FlatSearch(evaluation_text)
                 ELSE Strip(evaluation_text)
             loaded == JsonLoads(json_str)
         IN IF loaded.ok THEN loaded.val ELSE NullV

\* lines 18-37
EVALUATION_TYPES ==
    [morphological |-> [parse_json |-> TRUE, prompt_filter |-> NoneT],
     indexical     |-> [parse_json |-> FALSE, prompt_filter |-> NoneT],
     symbolic      |-> [parse_json |-> FALSE,
                        prompt_filter |->
                            <<"EXISTENTIAL GRAPH INTERPRETATION">>]]

\* MODELS of the consolidator (lines 40-46), in the order of the dict: the
\* display name and the directory under BASE_DIR
ConsolidatorMODELS ==
    <<[name |-> "Claude Sonnet 4.5",
       path |-> <<"claude", "_", "sonnet", "_", "4", "_", "5", "_",
                  "20250929">>],
      [name |-> "Gemini 3 Pro",
       path |-> <<"google/gemini", "_", "3", "_", "pro", "_", "preview">>],
      [name |-> "Gemini 3 Flash",
       path |-> <<"google/gemini", "_", "3", "_", "flash", "_", "preview">>],
      [name |-> "Gemma 3 27B",
       path |-> <<"gemma", "_", "3", "_", "27b", "_", "it">>],
      [name |-> "Qwen 2.5 VL 72B",
       path |-> <<"qwen2", "_", "5", "_", "vl", "_", "72b", "_",
                  "instruct">>]>>

\* the %Y%m%d part of a run directory's name
SecondsPerDay == 86400

StampDate(ts) == ts \div SecondsPerDay

\* no --date on the command line
NoDate == -1

\* the run directories on disk
RunDirs == {f.dir : f \in files} \cup {x.dir : x \in summaries}

\* a mutant of SortedDirs: the latest run directory comes first
RECURSIVE SortedDirsLatestFirst(_)
SortedDirsLatestFirst(D) ==
    IF D = {} THEN <<>>
    ELSE LET first == CHOOSE d \in D : \A e \in D : d.ts >= e.ts
         IN <<first>> \o SortedDirsLatestFirst(D \ {first})

\* sorted(...) of run directories: their names order as their time stamps
RECURSIVE SortedDirs(_)
SortedDirs(D) ==
    IF D = {} THEN <<>>
    ELSE LET first == CHOOSE d \in D : \A e \in D : d.ts <= e.ts
         IN <<first>> \o SortedDirs(D \ {first})

\* lines 108-115 (no specific_eval_dirs: main passes none)
EvalDirs(model_path, date_filter) ==
    SortedDirs({d \in RunDirs :
                  /\ d.model = model_path
                  /\ date_filter # NoDate => StampDate(d.ts) = date_filter})

\* eval_dir.glob("hou02614c00458*.json") without summary.json (lines 125-128)
Glob(dir) ==
    {f.name : f \in {g \in files :
                       /\ g.dir = dir
                       /\ StartsWith(g.name, MS)
                       /\ g.name[Len(g.name)] = ".json"
                       /\ g.name # <<"summary", ".json">>}}

\* json.load of a result file
Load(dir, name) == (CHOOSE f \in files : f.dir = dir /\ f.name = name).content

\* a mutant of Remember: the diagram is not recorded as seen
RememberNothing(seen, diagram_id) == seen

\* line 147
Remember(seen, diagram_id) == seen \cup {diagram_id}

\* lines 150-169: the entry of one result file
Evaluation(diagram_id, model_name, data, config) ==
    IF config.parse_json
    THEN [diagram_id |-> diagram_id, model |-> model_name,
          model_id |-> data.model,
          prediction |-> extract_json_from_evaluation(data.evaluation),
          raw_response |-> data.evaluation]
    ELSE [diagram_id |-> diagram_id, model |-> model_name,
          model_id |-> data.model,
          prediction |-> Str(data.evaluation)]

\* a mutant of Emit: an entry without a parsed prediction is dropped
EmitParsed(evaluations, evaluation) ==
    IF evaluation.prediction = NullV THEN evaluations
    ELSE Append(evaluations, evaluation)

\* line 171
Emit(evaluations, evaluation) == Append(evaluations, evaluation)

ConsModel == ConsolidatorMODELS[cons.m]

ConsConfig == EVALUATION_TYPES[cons.eval_type]

\* lines 87-88
ConsInvalidType(eval_type) ==
    /\ cons.pc = "idle"
    /\ eval_type \notin DOMAIN EVALUATION_TYPES
    /\ cons' = [cons EXCEPT !.pc = "raised", !.eval_type = eval_type]
    /\ UNCHANGED <<clock, env, index, crops, files, summaries, run, calls>>
    /\ UNCHANGED <<ad, cmp>>

\* lines 90-94
ConsStart(eval_type, date_filter) ==
    /\ cons.pc = "idle"
    /\ eval_type \in DOMAIN EVALUATION_TYPES
    /\ cons' = [cons EXCEPT !.pc = "models", !.eval_type = eval_type,
                            !.date_filter = date_filter, !.m = 1,
                            !.evaluations = <<>>]
    /\ UNCHANGED <<clock, env, index, crops, files, summaries, run, calls>>
    /\ UNCHANGED <<ad, cmp>>

\* lines 99-101
ConsModelMissing ==
    /\ cons.pc = "models"
    /\ cons.m <= Len(ConsolidatorMODELS)
    /\ ~\E d \in RunDirs : d.model = ConsModel.path
    /\ cons' = [cons EXCEPT !.m = @ + 1]
    /\ UNCHANGED <<clock, env, index, crops, files, summaries, run, calls>>
    /\ UNCHANGED <<ad, cmp>>

\* lines 117-119
ConsNoEvalDirs ==
    /\ cons.pc = "models"
    /\ cons.m <= Len(ConsolidatorMODELS)
    /\ \E d \in RunDirs : d.model = ConsModel.path
    /\ EvalDirs(ConsModel.path, cons.date_filter) = <<>>
    /\ cons' = [cons EXCEPT !.m = @ + 1]
    /\ UNCHANGED <<clock, env, index, crops, files, summaries, run, calls>>
    /\ UNCHANGED <<ad, cmp>>

\* lines 121-125: the set of seen diagrams starts empty for each model
ConsEnterModel ==
    /\ cons.pc = "models"
    /\ cons.m <= Len(ConsolidatorMODELS)
    /\ EvalDirs(ConsModel.path, cons.date_filter) # <<>>
    /\ LET dirs == EvalDirs(ConsModel.path, cons.date_filter)
       IN cons' = [cons EXCEPT !.pc = "files", !.eval_dirs = dirs,
                               !.todo = Glob(Head(dirs)), !.seen = {}]
    /\ UNCHANGED <<clock, env, index, crops, files, summaries, run, calls>>
    /\ UNCHANGED <<ad, cmp>>

\* lines 130-135; glob yields the files of a directory in any order
ConsSkipSeen(name) ==
    /\ cons.pc = "files"
    /\ name \in cons.todo
    /\ Stem(name) \in cons.seen
    /\ cons' = [cons EXCEPT !.todo = @ \ {name}]
    /\ UNCHANGED <<clock, env, index, crops, files, summaries, run, calls>>
    /\ UNCHANGED <<ad, cmp>>

\* lines 141-145: the file is passed over and its diagram is not yet seen
ConsSkipPrompt(name) ==
    /\ cons.pc = "files"
    /\ name \in cons.todo
    /\ Stem(name) \notin cons.seen
    /\ ConsConfig.prompt_filter # NoneT
    /\ ~StartsWith(Load(Head(cons.eval_dirs), name).prompt,
                   ConsConfig.prompt_filter)
    /\ cons' = [cons EXCEPT !.todo = @ \ {name}]
    /\ UNCHANGED <<clock, env, index, crops, files, summaries, run, calls>>
    /\ UNCHANGED <<ad, cmp>>

\* lines 147-171
ConsTake(name) ==
    /\ cons.pc = "files"
    /\ name \in cons.todo
    /\ Stem(name) \notin cons.seen
    /\ ConsConfig.prompt_filter # NoneT =>
          StartsWith(Load(Head(cons.eval_dirs), name).prompt,
                     ConsConfig.prompt_filter)
    /\ cons' = [cons EXCEPT
                  !.todo = @ \ {name},
                  !.seen = Remember(@, Stem(name)),
                  !.evaluations =
                      Emit(@, Evaluation(Stem(name), ConsModel.name,
                                         Load(Head(cons.eval_dirs), name),
                                         ConsConfig))]
    /\ UNCHANGED <<clock, env, index, crops, files, summaries, run, calls>>
    /\ UNCHANGED <<ad, cmp>>

\* the end of one directory: the next one of the model, or the next model
ConsNextDir ==
    /\ cons.pc = "files"
    /\ cons.todo = {}
    /\ LET rest == Tail(cons.eval_dirs)
       IN cons' = IF rest # <<>>
                  THEN [cons EXCEPT !.eval_dirs = rest,
                                    !.todo = Glob(Head(rest))]
                  ELSE [cons EXCEPT !.pc = "models", !.eval_dirs = <<>>,
                                    !.m = @ + 1]
    /\ UNCHANGED <<clock, env, index, crops, files, summaries, run, calls>>
    /\ UNCHANGED <<ad, cmp>>

\* lines 175-192: the output file of the level
ConsFinish ==
    /\ cons.pc = "models"
    /\ cons.m > Len(ConsolidatorMODELS)
    /\ cons' = [cons EXCEPT
                  !.pc = "done",
                  !.output =
                      <<[evaluations |-> cons.evaluations,
                         metadata |->
                             [total_evaluations |-> Len(cons.evaluations),
                              models |-> [k \in 1..Len(ConsolidatorMODELS)
                                            |-> ConsolidatorMODELS[k].name],
                              evaluation_type |-> cons.eval_type]]>>]
    /\ UNCHANGED <<clock, env, index, crops, files, summaries, run, calls>>
    /\ UNCHANGED <<ad, cmp>>

-----------------------------------------------------------------------------
(* The consolidator over result files left by earlier runs of the driver *)

MaxFiles == 2

\* the run directories the files lie in: three runs of one model, two of
\* them on the same day, and one run of another model
DiskDirs ==
    {OutputDir("claude", ts) : ts \in {0, 1, SecondsPerDay}}
        \cup {OutputDir("gemma", 0)}

\* a diagram of the manuscript and a diagram of another manuscript
DiskDiagrams ==
    {Segment(Row("diagram", "0", "0")),
     [Segment(Row("diagram", "0", "0")) EXCEPT
         !.manuscript_id = <<"hou02614c00460">>]}

\* a prompt given with --custom-prompt
EGPrompt == <<"EXISTENTIAL GRAPH INTERPRETATION", ":", "read the graph">>

TextRefusal == <<"I cannot read this diagram">>

DiskContents ==
    [prompt : {PromptFor(NoneT, "morphological"),
               PromptFor(EGPrompt, "symbolic")},
     text : {TextJson, TextRefusal}]

ModelNameOf(dir) ==
    CHOOSE m \in DOMAIN MODELS : Sanitize(MODELS[m].model_id) = dir.model

\* the file the driver writes for a diagram it evaluated successfully
Stored(slot, c) ==
    CHOOSE f \in Persist({}, slot.dir, slot.d, c.prompt,
                         Succeeded(clean_vlm_output(c.text), NoneT,
                                   MODELS[ModelNameOf(slot.dir)]), "r1") :
        TRUE

DiskSlots == [dir : DiskDirs, d : DiskDiagrams]

DiskChoices ==
    UNION {{{Stored(x, pick[x]) : x \in S} : pick \in [S -> DiskContents]} :
             S \in {T \in SUBSET DiskSlots : Cardinality(T) <= MaxFiles}}

DateFilters == {NoDate, 0, 1}

InitConsolidate ==
    /\ clock = 0
    /\ env = Credentials
    /\ index = <<>>
    /\ crops = {}
    /\ files \in DiskChoices
    /\ summaries = {}
    /\ run = [r \in Runs |-> FreshRun]
    /\ calls = [r \in Runs |-> NoCalls]
    /\ ad = NoCall
    /\ cons = ConsIdle
    /\ cmp = NoComparison

NextConsolidate ==
    \/ ConsInvalidType("description")
    \/ \E eval_type \in DOMAIN EVALUATION_TYPES, date_filter \in DateFilters :
          ConsStart(eval_type, date_filter)
    \/ ConsModelMissing
    \/ ConsNoEvalDirs
    \/ ConsEnterModel
    \/ \E name \in cons.todo : ConsSkipSeen(name)
    \/ \E name \in cons.todo : ConsSkipPrompt(name)
    \/ \E name \in cons.todo : ConsTake(name)
    \/ ConsNextDir
    \/ ConsFinish

SpecConsolidate == InitConsolidate /\ [][NextConsolidate]_vars

\* the positions of the entries of a (diagram_id, model) pair
EntriesOf(evaluations, diagram_id, model) ==
    {k \in 1..Len(evaluations) :
        /\ evaluations[k].diagram_id = diagram_id
        /\ evaluations[k].model = model}

\* C8: the evaluations list the unified consolidator emits for a level has
\* at most one entry for each (diagram_id, model) pair, whatever run
\* directories there are for the model and whatever they contain
C8_OneEntryPerDiagramAndModel ==
    \A k \in 1..Len(cons.output) :
        \A e \in Entries(cons.output[k].evaluations) :
            Cardinality(EntriesOf(cons.output[k].evaluations,
                                  e.diagram_id, e.model)) = 1

\* two run directories of one model hold a result for the same diagram, and
\* the emitted list has the diagram once for that model
C8_Witness ==
    /\ cons.pc = "done"
    /\ \E f, g \in files :
          /\ f.dir # g.dir
          /\ f.dir.model = g.dir.model
          /\ f.name = g.name
          /\ \E e \in Entries(cons.output[1].evaluations) :
                /\ e.diagram_id = Stem(f.name)
                /\ e.model_id = f.content.model

-----------------------------------------------------------------------------
(* calculate_morphological_metrics.py: compare_prediction *)

\* no exception
NoExc == "none"

\* the first exception of a sequence of evaluations
RECURSIVE FirstExc(_)
FirstExc(excs) ==
    IF excs = <<>> THEN NoExc
    ELSE IF Head(excs) # NoExc THEN Head(excs)
    ELSE FirstExc(Tail(excs))

\* a == b of Python on parsed JSON values (True == 1 and False == 0)
PyEq(a, b) ==
    \/ a[1] = b[1] /\ a = b
    \/ a = TrueV /\ b = Num("1")
    \/ a = Num("1") /\ b = TrueV
    \/ a = FalseV /\ b = Num("0")
    \/ a = Num("0") /\ b = FalseV

\* what `for label in labels` yields: the items of a list, the characters
\* of a string, the keys of a dict
Iterable(v) == v[1] \in {"arr", "str", "obj"}

Items(v) ==
    IF v[1] = "arr" THEN {v[2][k] : k \in 1..Len(v[2])}
    ELSE IF v[1] = "str" THEN {Str(<<v[2][k]>>) : k \in 1..Len(v[2])}
    ELSE {Str(<<key>>) : key \in DOMAIN v[2]}

\* a mutant of Fold: the case of the label is kept
FoldKeepCase(label) == Strip(label)

\* label.lower().strip()
Fold(label) == Strip(LowerText(label))

\* lines 37-41: value is the set, exc the exception raised instead
normalize_labels(labels) ==
    IF Falsy(labels) THEN [exc |-> NoExc, value |-> {}]
    ELSE IF ~Iterable(labels) THEN [exc |-> "TypeError", value |-> {}]
    ELSE IF \E x \in Items(labels) : x[1] # "str"
    THEN [exc |-> "AttributeError", value |-> {}]
    ELSE [exc |-> NoExc, value |-> {Fold(x[2]) : x \in Items(labels)}]

\* prediction.get(group, {})
PredGroup(prediction, group) == Get(prediction, group, Obj(EmptyMap))

\* prediction.get(group, {}).get(key) raises where a .get has no dict
PredExc(prediction, group) ==
    IF ~IsDict(prediction) THEN "AttributeError"
    ELSE IF ~IsDict(PredGroup(prediction, group)) THEN "AttributeError"
    ELSE NoExc

\* ground_truth[group][key]
GtExc(gt, group, key) ==
    IF group \notin DOMAIN gt[2] THEN "KeyError"
    ELSE IF ~IsDict(gt[2][group]) THEN "TypeError"
    ELSE IF key \notin DOMAIN gt[2][group][2] THEN "KeyError"
    ELSE NoExc

\* the five fields compared with ==, in the order of lines 55-78
Fields ==
    <<[name |-> "cuts_count", group |-> "cuts", key |-> "count"],
      [name |-> "cuts_nested", group |-> "cuts", key |-> "nested"],
      [name |-> "lines_count", group |-> "lines", key |-> "count"],
      [name |-> "lines_branching", group |-> "lines", key |-> "branching"],
      [name |-> "spots_count", group |-> "spots", key |-> "count"]>>

FieldExc(prediction, gt, f) ==
    FirstExc(<<PredExc(prediction, f.group), GtExc(gt, f.group, f.key)>>)

FieldMatch(prediction, gt, f) ==
    PyEq(Get(PredGroup(prediction, f.group), f.key, NullV),
         gt[2][f.group][2][f.key])

\* lines 81-83
LabelsExc(prediction, gt) ==
    FirstExc(<<PredExc(prediction, "spots"),
               IF PredExc(prediction, "spots") # NoExc THEN NoExc
               ELSE normalize_labels(
                        Get(PredGroup(prediction, "spots"), "labels",
                            Arr(<<>>))).exc,
               GtExc(gt, "spots", "labels"),
               IF GtExc(gt, "spots", "labels") # NoExc THEN NoExc
               ELSE normalize_labels(gt[2]["spots"][2]["labels"]).exc>>)

LabelsMatch(prediction, gt) ==
    normalize_labels(Get(PredGroup(prediction, "spots"), "labels",
                         Arr(<<>>))).value
        = normalize_labels(gt[2]["spots"][2]["labels"]).value

\* what compare_prediction gives back when it returns None or raises
NoComparisonResult(exc) ==
    [exc |-> exc, returned |-> FALSE, cuts_count |-> FALSE,
     cuts_nested |-> FALSE, lines_count |-> FALSE, lines_branching |-> FALSE,
     spots_count |-> FALSE, spots_labels |-> FALSE, correct |-> 0,
     total |-> 0]

Count(flags) == Cardinality({k \in 1..Len(flags) : flags[k]})

\* lines 44-90; accuracy is correct / total
compare_prediction(prediction, ground_truth) ==
    LET exc == FirstExc([k \in 1..Len(Fields) |->
                            FieldExc(prediction, ground_truth, Fields[k])]
                        \o <<LabelsExc(prediction, ground_truth)>>)
        m == [k \in 1..Len(Fields) |->
                 FieldMatch(prediction, ground_truth, Fields[k])]
        labels == LabelsMatch(prediction, ground_truth)
    IN IF Falsy(prediction) THEN NoComparisonResult(NoExc)
       ELSE IF exc # NoExc THEN NoComparisonResult(exc)
       ELSE [exc |-> NoExc, returned |-> TRUE, cuts_count |-> m[1],
             cuts_nested |-> m[2], lines_count |-> m[3],
             lines_branching |-> m[4], spots_count |-> m[5],
             spots_labels |-> labels,
             correct |-> Count(m \o <<labels>>), total |-> 6]

-----------------------------------------------------------------------------
(* compare_prediction on label lists *)

MaxLabels == 3

\* labels that differ in case and in surrounding white space
LabelAlphabet ==
    {<<"A">>, <<"a">>, <<"B">>, <<"b">>, <<"c">>, <<" ", "b", " ">>}

LabelLists == UNION {[1..n -> LabelAlphabet] : n \in 0..MaxLabels}

LabelArray(labels) == Arr([k \in 1..Len(labels) |-> Str(labels[k])])

\* a value of the morphological shape
MorphObj(cuts_count, spots) ==
    Obj([cuts |-> Obj([count |-> cuts_count, nested |-> TrueV]),
         lines |-> Obj([count |-> Num("1"), branching |-> FalseV]),
         spots |-> spots])

SpotsWith(labels) == Obj([count |-> Num("1"), labels |-> labels])

\* a prediction without the labels key
SpotsBare == Obj([count |-> Num("1")])

PredSpots ==
    {SpotsWith(LabelArray(l)) : l \in LabelLists}
        \cup {SpotsWith(NullV), SpotsBare}

\* the annotated lists are shorter by one than the longest predicted list
GtLabelLists == UNION {[1..n -> LabelAlphabet] : n \in 0..(MaxLabels - 1)}

GtSpots == {SpotsWith(LabelArray(l)) : l \in GtLabelLists}

InitLabels ==
    /\ clock = 0
    /\ env = Credentials
    /\ index = <<>>
    /\ crops = {}
    /\ files = {}
    /\ summaries = {}
    /\ run = [r \in Runs |-> FreshRun]
    /\ calls = [r \in Runs |-> NoCalls]
    /\ ad = NoCall
    /\ cons = ConsIdle
    /\ cmp \in [pc : {"input"},
                prediction : {MorphObj(Num("2"), sp) : sp \in PredSpots},
                ground_truth : {MorphObj(Num("2"), sp) : sp \in GtSpots}]

\* one call of compare_prediction
ComparePrediction ==
    /\ cmp.pc = "input"
    /\ cmp' = [pc |-> "compared", prediction |-> cmp.prediction,
               ground_truth |-> cmp.ground_truth,
               comparison |-> compare_prediction(cmp.prediction,
                                                 cmp.ground_truth)]
    /\ UNCHANGED <<clock, env, index, crops, files, summaries, run, calls>>
    /\ UNCHANGED <<ad, cons>>

NextLabels == ComparePrediction

SpecLabels == InitLabels /\ [][NextLabels]_vars

\* the labels of a spots object as a list of texts; none when the key is
\* absent or null
LabelList(spots) ==
    LET v == Get(spots, "labels", Arr(<<>>))
    IN IF v[1] = "arr" THEN [k \in 1..Len(v[2]) |-> v[2][k][2]] ELSE <<>>

\* every label of p equals some label of g up to case and surrounding
\* white space
CoveredBy(p, g) ==
    \A i \in 1..Len(p) : \E j \in 1..Len(g) :
        Strip(LowerText(p[i])) = Strip(LowerText(g[j]))

\* C9: the spots-labels flag of compare_prediction is true exactly when the
\* two label lists, each label lower-cased and trimmed, are equal as sets,
\* whatever the order, the case, the surrounding white space and the
\* repetitions; [A, b] matches [a, B] and [b, a] and not [a, b, c]
C9_LabelsMatchAsSets ==
    cmp.pc = "compared" =>
        LET p == LabelList(cmp.prediction[2]["spots"])
            g == LabelList(cmp.ground_truth[2]["spots"])
            ab == <<(<<"A">>), (<<"b">>)>>
        IN /\ cmp.comparison.returned
           /\ cmp.comparison.spots_labels <=> (CoveredBy(p, g) /\ CoveredBy(g, p))
           /\ (g = ab /\ p = <<(<<"a">>), (<<"B">>)>>)
                 => cmp.comparison.spots_labels
           /\ (g = ab /\ p = <<(<<"b">>), (<<"a">>)>>)
                 => cmp.comparison.spots_labels
           /\ (g = ab /\ p = <<(<<"a">>), (<<"b">>), (<<"c">>)>>)
                 => ~cmp.comparison.spots_labels

\* lists that differ in order, case, white space and repetition and match
C9_Witness ==
    /\ cmp.pc = "compared"
    /\ LabelList(cmp.prediction[2]["spots"])
          = <<(<<"A">>), (<<" ", "b", " ">>), (<<"a">>)>>
    /\ LabelList(cmp.ground_truth[2]["spots"]) = <<(<<"B">>), (<<"a">>)>>
    /\ cmp.comparison.spots_labels

-----------------------------------------------------------------------------
(* calculate_morphological_metrics.py: calculate_metrics and main *)

\* lines 12-26: the annotations keyed by diagram_id, a later entry of the
\* list replacing an earlier one with the same id; nothing is left out
load_ground_truth(diagrams) ==
    [id \in {diagrams[k].diagram_id : k \in 1..Len(diagrams)} |->
        LET last == CHOOSE k \in 1..Len(diagrams) :
                        /\ diagrams[k].diagram_id = id
                        /\ \A j \in (k + 1)..Len(diagrams) :
                              diagrams[j].diagram_id # id
        IN Obj([cuts |-> diagrams[last].cuts, lines |-> diagrams[last].lines,
                spots |-> diagrams[last].spots])]

\* round(a / b) of Python: to the nearest integer, a half to the even one
RoundDiv(a, b) ==
    LET q == a \div b
        r == a % b
    IN IF 2 * r > b \/ (2 * r = b /\ q % 2 = 1) THEN q + 1 ELSE q

RECURSIVE SumCorrect(_)
SumCorrect(rows) ==
    IF rows = <<>> THEN 0 ELSE Head(rows).correct + SumCorrect(Tail(rows))

Hits(rows, field) == Cardinality({k \in 1..Len(rows) : rows[k][field]})

\* lines 139-152: one row of a model; percentages in hundredths of a point
Aggregate(model, rows) ==
    LET n == Len(rows)
    IN [model |-> model, num_evaluations |-> n,
        avg_accuracy |-> RoundDiv(10000 * SumCorrect(rows), 6 * n),
        cuts_count_acc |-> RoundDiv(10000 * Hits(rows, "cuts_count"), n),
        cuts_nested_acc |-> RoundDiv(10000 * Hits(rows, "cuts_nested"), n),
        lines_count_acc |-> RoundDiv(10000 * Hits(rows, "lines_count"), n),
        lines_branching_acc |->
            RoundDiv(10000 * Hits(rows, "lines_branching"), n),
        spots_count_acc |-> RoundDiv(10000 * Hits(rows, "spots_count"), n),
        spots_labels_acc |-> RoundDiv(10000 * Hits(rows, "spots_labels"), n)]

\* model_results[model][...].append: a model enters at its first result
StoreResult(model_results, model, comparison) ==
    IF \E k \in 1..Len(model_results) : model_results[k].model = model
    THEN [k \in 1..Len(model_results) |->
             IF model_results[k].model = model
             THEN [model_results[k] EXCEPT !.rows = Append(@, comparison)]
             ELSE model_results[k]]
    ELSE Append(model_results, [model |-> model, rows |-> <<comparison>>])

\* line 180: sort_values('avg_accuracy', ascending=False); rows of equal
\* value stay in their order
InsertDescending(sorted, row) ==
    LET k == Cardinality({i \in 1..Len(sorted) :
                            sorted[i].avg_accuracy >= row.avg_accuracy})
    IN SubSeq(sorted, 1, k) \o <<row>> \o SubSeq(sorted, k + 1, Len(sorted))

RECURSIVE SortDescending(_)
SortDescending(rows) ==
    IF rows = <<>> THEN <<>>
    ELSE InsertDescending(
             SortDescending(SubSeq(rows, 1, Len(rows) - 1)), rows[Len(rows)])

MetricsItem == cmp.predictions[cmp.k]

\* lines 164-170
MetricsLoad ==
    /\ cmp.pc = "input"
    /\ cmp.which = "calculate_morphological_metrics"
    /\ cmp' = [cmp EXCEPT !.pc = "loop",
                          !.ground_truth = load_ground_truth(cmp.gt_file)]
    /\ UNCHANGED <<clock, env, index, crops, files, summaries, run, calls>>
    /\ UNCHANGED <<ad, cons>>

\* lines 107-110
MetricsNoGroundTruth ==
    /\ cmp.pc = "loop"
    /\ cmp.which = "calculate_morphological_metrics"
    /\ cmp.k <= Len(cmp.predictions)
    /\ MetricsItem.diagram_id \notin DOMAIN cmp.ground_truth
    /\ cmp' = [cmp EXCEPT !.k = @ + 1]
    /\ UNCHANGED <<clock, env, index, crops, files, summaries, run, calls>>
    /\ UNCHANGED <<ad, cons>>

\* lines 112-115
MetricsUnparsed ==
    /\ cmp.pc = "loop"
    /\ cmp.which = "calculate_morphological_metrics"
    /\ cmp.k <= Len(cmp.predictions)
    /\ MetricsItem.diagram_id \in DOMAIN cmp.ground_truth
    /\ Falsy(MetricsItem.prediction)
    /\ cmp' = [cmp EXCEPT !.k = @ + 1]
    /\ UNCHANGED <<clock, env, index, crops, files, summaries, run, calls>>
    /\ UNCHANGED <<ad, cons>>

\* lines 117-135
MetricsCompare ==
    /\ cmp.pc = "loop"
    /\ cmp.which = "calculate_morphological_metrics"
    /\ cmp.k <= Len(cmp.predictions)
    /\ MetricsItem.diagram_id \in DOMAIN cmp.ground_truth
    /\ ~Falsy(MetricsItem.prediction)
    /\ LET comparison ==
               compare_prediction(MetricsItem.prediction,
                                  cmp.ground_truth[MetricsItem.diagram_id])
       IN /\ comparison.exc = NoExc
          /\ cmp' = [cmp EXCEPT
                       !.k = @ + 1,
                       !.model_results =
                           StoreResult(@, MetricsItem.model, comparison),
                       !.detailed_results =
                           Append(@, [diagram_id |-> MetricsItem.diagram_id,
                                      model |-> MetricsItem.model,
                                      comparison |-> comparison])]
    /\ UNCHANGED <<clock, env, index, crops, files, summaries, run, calls>>
    /\ UNCHANGED <<ad, cons>>

\* line 118: compare_prediction raises and nothing catches it
MetricsRaise ==
    /\ cmp.pc = "loop"
    /\ cmp.which = "calculate_morphological_metrics"
    /\ cmp.k <= Len(cmp.predictions)
    /\ MetricsItem.diagram_id \in DOMAIN cmp.ground_truth
    /\ ~Falsy(MetricsItem.prediction)
    /\ LET comparison ==
               compare_prediction(MetricsItem.prediction,
                                  cmp.ground_truth[MetricsItem.diagram_id])
       IN /\ comparison.exc # NoExc
          /\ cmp' = [cmp EXCEPT !.pc = "raised", !.exc = comparison.exc]
    /\ UNCHANGED <<clock, env, index, crops, files, summaries, run, calls>>
    /\ UNCHANGED <<ad, cons>>

\* lines 137-154 and 175-188: the rows of the models, sorted and saved
MetricsFinish ==
    /\ cmp.pc = "loop"
    /\ cmp.which = "calculate_morphological_metrics"
    /\ cmp.k > Len(cmp.predictions)
    /\ cmp.model_results # <<>>
    /\ LET aggregated ==
               [k \in 1..Len(cmp.model_results) |->
                   Aggregate(cmp.model_results[k].model,
                             cmp.model_results[k].rows)]
       IN cmp' = [cmp EXCEPT !.pc = "done",
                             !.summary = SortDescending(aggregated),
                             !.best = SortDescending(aggregated)[1].model]
    /\ UNCHANGED <<clock, env, index, crops, files, summaries, run, calls>>
    /\ UNCHANGED <<ad, cons>>

\* line 180 with no row at all: the frame has no avg_accuracy column
MetricsFinishEmpty ==
    /\ cmp.pc = "loop"
    /\ cmp.which = "calculate_morphological_metrics"
    /\ cmp.k > Len(cmp.predictions)
    /\ cmp.model_results = <<>>
    /\ cmp' = [cmp EXCEPT !.pc = "raised", !.exc = "KeyError"]
    /\ UNCHANGED <<clock, env, index, crops, files, summaries, run, calls>>
    /\ UNCHANGED <<ad, cons>>

-----------------------------------------------------------------------------
(* evaluate_against_ground_truth.py *)

\* lines 13-30: the fence pattern, else the trimmed text
ExtractFenced(evaluation_text) ==
    IF evaluation_text = NoneT \/ evaluation_text = <<>> THEN NullV
    ELSE LET json_str == IF FenceSearch(evaluation_text) # NoneT
                         THEN FenceSearch(evaluation_text)
                         ELSE Strip(evaluation_text)
             loaded == JsonLoads(json_str)
         IN IF loaded.ok THEN loaded.val ELSE NullV

\* the run of each model named at lines 175-181 is the one with this stamp
EvaluatedStamp == 0

\* lines 175-181
EvaluatedRuns ==
    [k \in 1..Len(ConsolidatorMODELS) |->
        [name |-> ConsolidatorMODELS[k].name,
         dir |-> [model |-> ConsolidatorMODELS[k].path,
                  ts |-> EvaluatedStamp]]]

\* lines 33-50: one annotation file per diagram; a file whose cuts.count is
\* null is left out
LoadGroundTruthDir(gt_files) ==
    [id \in {gt_files[k].diagram_id :
                k \in {j \in 1..Len(gt_files) :
                          gt_files[j].cuts[2]["count"] # NullV}} |->
        LET k == CHOOSE j \in 1..Len(gt_files) : gt_files[j].diagram_id = id
        IN Obj([cuts |-> gt_files[k].cuts, lines |-> gt_files[k].lines,
                spots |-> gt_files[k].spots])]

\* lines 53-70: the parsed answers of a run directory that are not falsy
load_model_evaluations(dir) ==
    LET kept == {f \in files :
                   /\ f.dir = dir
                   /\ f.name[Len(f.name)] = ".json"
                   /\ f.name # <<"summary", ".json">>
                   /\ ~Falsy(ExtractFenced(f.content.evaluation))}
    IN [id \in {Stem(f.name) : f \in kept} |->
           ExtractFenced((CHOOSE f \in kept : Stem(f.name) = id)
                             .content.evaluation)]

\* a mutant of DiagramResult: a diagram counts as an exact match as soon as
\* one of its fields matches
DiagramResultAnyField(diagram_id, pred, gt) ==
    LET m == [k \in 1..Len(Fields) |-> FieldMatch(pred, gt, Fields[k])]
    IN [diagram_id |-> diagram_id, cuts_count_match |-> m[1],
        cuts_nested_match |-> m[2], lines_count_match |-> m[3],
        lines_branching_match |-> m[4], spots_count_match |-> m[5],
        exact_match |-> \E k \in 1..Len(Fields) : m[k]]

\* lines 97-143 for one diagram
DiagramResult(diagram_id, pred, gt) ==
    LET m == [k \in 1..Len(Fields) |-> FieldMatch(pred, gt, Fields[k])]
    IN [diagram_id |-> diagram_id, cuts_count_match |-> m[1],
        cuts_nested_match |-> m[2], lines_count_match |-> m[3],
        lines_branching_match |-> m[4], spots_count_match |-> m[5],
        exact_match |-> \A k \in 1..Len(Fields) : m[k]]

\* lines 73-147; per_diagram is kept as a set, its order being the order
\* in which glob yields the annotation files; exc is the exception a
\* comparison raises instead
evaluate_model(model_name, model_evals, ground_truth) ==
    LET evaluated == DOMAIN ground_truth \cap DOMAIN model_evals
        raising == {x \in evaluated \X (1..Len(Fields)) :
                      FieldExc(model_evals[x[1]], ground_truth[x[1]],
                               Fields[x[2]]) # NoExc}
        per_diagram ==
            IF raising # {} THEN {}
            ELSE {DiagramResult(id, model_evals[id], ground_truth[id]) :
                     id \in evaluated}
    IN [model |-> model_name,
        exc |-> IF raising = {} THEN NoExc
                ELSE LET x == CHOOSE y \in raising : TRUE
                     IN FieldExc(model_evals[x[1]], ground_truth[x[1]],
                                 Fields[x[2]]),
        total_diagrams |-> Cardinality(DOMAIN ground_truth),
        evaluated_diagrams |-> Cardinality(evaluated),
        cuts_count_correct |->
            Cardinality({d \in per_diagram : d.cuts_count_match}),
        cuts_nested_correct |->
            Cardinality({d \in per_diagram : d.cuts_nested_match}),
        lines_count_correct |->
            Cardinality({d \in per_diagram : d.lines_count_match}),
        lines_branching_correct |->
            Cardinality({d \in per_diagram : d.lines_branching_match}),
        spots_count_correct |->
            Cardinality({d \in per_diagram : d.spots_count_match}),
        exact_match |-> Cardinality({d \in per_diagram : d.exact_match}),
        missing_evaluations |-> DOMAIN ground_truth \ DOMAIN model_evals,
        per_diagram |-> per_diagram]

\* a mutant of calculate_metrics: the accuracies are taken over all the
\* annotated diagrams
calculate_metricsOverTotal(results) ==
    LET n == results.evaluated_diagrams
        t == results.total_diagrams
    IN [model |-> results.model,
        evaluated |-> <<n, t>>,
        coverage |-> RoundDiv(10000 * n, t),
        exact_match |-> RoundDiv(10000 * results.exact_match, t),
        cuts_count_acc |-> RoundDiv(10000 * results.cuts_count_correct, t),
        cuts_nested_acc |-> RoundDiv(10000 * results.cuts_nested_correct, t),
        lines_count_acc |-> RoundDiv(10000 * results.lines_count_correct, t),
        lines_branching_acc |->
            RoundDiv(10000 * results.lines_branching_correct, t),
        spots_count_acc |-> RoundDiv(10000 * results.spots_count_correct, t)]

\* lines 150-166, for n > 0; percentages in hundredths of a point
calculate_metrics(results) ==
    LET n == results.evaluated_diagrams
    IN [model |-> results.model,
        evaluated |-> <<n, results.total_diagrams>>,
        coverage |-> RoundDiv(10000 * n, results.total_diagrams),
        exact_match |-> RoundDiv(10000 * results.exact_match, n),
        cuts_count_acc |-> RoundDiv(10000 * results.cuts_count_correct, n),
        cuts_nested_acc |-> RoundDiv(10000 * results.cuts_nested_correct, n),
        lines_count_acc |-> RoundDiv(10000 * results.lines_count_correct, n),
        lines_branching_acc |->
            RoundDiv(10000 * results.lines_branching_correct, n),
        spots_count_acc |-> RoundDiv(10000 * results.spots_count_correct, n)]

EvalRun == EvaluatedRuns[cmp.m]

EvalResults ==
    evaluate_model(EvalRun.name, load_model_evaluations(EvalRun.dir),
                   cmp.ground_truth)

\* lines 183-191
EvalLoad ==
    /\ cmp.pc = "input"
    /\ cmp.which = "evaluate_against_ground_truth"
    /\ cmp' = [cmp EXCEPT !.pc = "loop",
                          !.ground_truth = LoadGroundTruthDir(cmp.gt_file)]
    /\ UNCHANGED <<clock, env, index, crops, files, summaries, run, calls>>
    /\ UNCHANGED <<ad, cons>>

\* lines 197-199
EvalModelMissing ==
    /\ cmp.pc = "loop"
    /\ cmp.which = "evaluate_against_ground_truth"
    /\ cmp.m <= Len(EvaluatedRuns)
    /\ EvalRun.dir \notin RunDirs
    /\ cmp' = [cmp EXCEPT !.m = @ + 1]
    /\ UNCHANGED <<clock, env, index, crops, files, summaries, run, calls>>
    /\ UNCHANGED <<ad, cons>>

\* lines 201-225 for a model with an evaluated diagram
EvalModel ==
    /\ cmp.pc = "loop"
    /\ cmp.which = "evaluate_against_ground_truth"
    /\ cmp.m <= Len(EvaluatedRuns)
    /\ EvalRun.dir \in RunDirs
    /\ EvalResults.exc = NoExc
    /\ EvalResults.evaluated_diagrams > 0
    /\ cmp' = [cmp EXCEPT
                 !.m = @ + 1,
                 !.model_results = Append(@, EvalResults),
                 !.all_results = Append(@, calculate_metrics(EvalResults)),
                 !.detailed_results =
                     Append(@, [model |-> EvalRun.name,
                                per_diagram |-> EvalResults.per_diagram])]
    /\ UNCHANGED <<clock, env, index, crops, files, summaries, run, calls>>
    /\ UNCHANGED <<ad, cons>>

\* line 206: a .get on a value that is not a dict raises in evaluate_model
EvalModelRaise ==
    /\ cmp.pc = "loop"
    /\ cmp.which = "evaluate_against_ground_truth"
    /\ cmp.m <= Len(EvaluatedRuns)
    /\ EvalRun.dir \in RunDirs
    /\ EvalResults.exc # NoExc
    /\ cmp' = [cmp EXCEPT !.pc = "raised", !.exc = EvalResults.exc]
    /\ UNCHANGED <<clock, env, index, crops, files, summaries, run, calls>>
    /\ UNCHANGED <<ad, cons>>

\* lines 209-224: calculate_metrics returns None for a model with no
\* evaluated diagram, and line 224 subscripts it
EvalModelNoMetrics ==
    /\ cmp.pc = "loop"
    /\ cmp.which = "evaluate_against_ground_truth"
    /\ cmp.m <= Len(EvaluatedRuns)
    /\ EvalRun.dir \in RunDirs
    /\ EvalResults.exc = NoExc
    /\ EvalResults.evaluated_diagrams = 0
    /\ cmp' = [cmp EXCEPT !.pc = "raised", !.exc = "TypeError",
                          !.model_results = Append(@, EvalResults)]
    /\ UNCHANGED <<clock, env, index, crops, files, summaries, run, calls>>
    /\ UNCHANGED <<ad, cons>>

\* line 263: df['exact_match'].idxmax(), the first row of the largest value
IdxMax(rows) ==
    CHOOSE k \in 1..Len(rows) :
        /\ \A j \in 1..Len(rows) : rows[j].exact_match <= rows[k].exact_match
        /\ \A j \in 1..(k - 1) : rows[j].exact_match < rows[k].exact_match

\* lines 227-264: the rows in the order of the models, and the best one
EvalFinish ==
    /\ cmp.pc = "loop"
    /\ cmp.which = "evaluate_against_ground_truth"
    /\ cmp.m > Len(EvaluatedRuns)
    /\ cmp.all_results # <<>>
    /\ cmp' = [cmp EXCEPT !.pc = "done", !.summary = cmp.all_results,
                          !.best = cmp.all_results[IdxMax(cmp.all_results)]
                                       .model]
    /\ UNCHANGED <<clock, env, index, crops, files, summaries, run, calls>>
    /\ UNCHANGED <<ad, cons>>

\* line 237 with no row at all: the frame has none of the columns
EvalFinishEmpty ==
    /\ cmp.pc = "loop"
    /\ cmp.which = "evaluate_against_ground_truth"
    /\ cmp.m > Len(EvaluatedRuns)
    /\ cmp.all_results = <<>>
    /\ cmp' = [cmp EXCEPT !.pc = "raised", !.exc = "KeyError"]
    /\ UNCHANGED <<clock, env, index, crops, files, summaries, run, calls>>
    /\ UNCHANGED <<ad, cons>>

-----------------------------------------------------------------------------
(* The two comparators over annotations and predictions *)

MaxPredictions == 2

D0 == DiagramId(Segment(Row("diagram", "0", "0")))
D1 == DiagramId(Segment(Row("diagram", "0", "1")))

\* the annotation that TextJson answers in full
GtAnnotated(id) ==
    [diagram_id |-> id,
     cuts |-> Obj([count |-> Num("2"), nested |-> TrueV]),
     lines |-> Obj([count |-> Num("1"), branching |-> FalseV]),
     spots |-> SpotsWith(LabelArray(<<(<<"man">>)>>))]

\* the annotation as setup_ground_truth_annotations.py creates it, not yet
\* filled in
GtTemplate(id) ==
    [diagram_id |-> id,
     cuts |-> Obj([count |-> NullV, nested |-> NullV]),
     lines |-> Obj([count |-> NullV, branching |-> NullV]),
     spots |-> Obj([count |-> NullV, labels |-> Arr(<<>>)])]

\* the annotations of no, one or both diagrams, each filled in or not
GtFiles ==
    {<<>>}
        \cup {<<g>> : g \in {GtAnnotated(D0), GtTemplate(D0),
                             GtAnnotated(D1), GtTemplate(D1)}}
        \cup {<<g, h>> : g \in {GtAnnotated(D0), GtTemplate(D0)},
                         h \in {GtAnnotated(D1), GtTemplate(D1)}}

\* {"cuts":1,"lines":0,"spots":2}
TextFlat ==
    <<"{", "\"cuts\"", ":", "1", ",", "\"lines\"", ":", "0", ",",
      "\"spots\"", ":", "2", "}">>

\* {"cuts":{"count":1}}
TextShort == <<"{", "\"cuts\"", ":", "{", "\"count\"", ":", "1", "}", "}">>

ComparedTexts == {TextJson, TextRefusal, TextFlat, TextShort}

\* the answer of TextJson with another label: "labels":["wounded"]
TextWounded ==
    [k \in 1..Len(TextJson) |->
        IF TextJson[k] = "\"man\"" THEN "\"wounded\"" ELSE TextJson[k]]

\* {"cuts":{"count":2}}: the cuts counted right, and nothing else said
TextTwoCuts == <<"{", "\"cuts\"", ":", "{", "\"count\"", ":", "2", "}", "}">>

\* the answers in the run directories
EvaluatedTexts ==
    {TextJson, TextRefusal, TextFlat, TextShort, TextWounded, TextTwoCuts}

\* entries of morphological_predictions.json as the consolidator writes them
PredictionEntries ==
    [diagram_id : {D0, D1},
     model : {ConsolidatorMODELS[1].name, ConsolidatorMODELS[4].name},
     prediction : {extract_json_from_evaluation(t) : t \in ComparedTexts}]

PredictionLists ==
    {p \in UNION {[1..n -> PredictionEntries] : n \in 0..MaxPredictions} :
        \A i, j \in 1..Len(p) :
            (p[i].diagram_id = p[j].diagram_id /\ p[i].model = p[j].model)
                => i = j}

\* the run directories named in evaluate_against_ground_truth.py with an
\* answer, or none, for each diagram
ComparedSlots ==
    [dir : {EvaluatedRuns[1].dir, EvaluatedRuns[4].dir},
     d : {Segment(Row("diagram", "0", "0")),
          Segment(Row("diagram", "0", "1"))}]

ComparedDisks ==
    UNION {{{Stored(x, [prompt |-> PromptFor(NoneT, "morphological"),
                        text |-> pick[x]]) : x \in S} :
               pick \in [S -> EvaluatedTexts]} :
             S \in SUBSET ComparedSlots}

CmpInput(which, gt_file, predictions) ==
    [pc |-> "input", which |-> which, gt_file |-> gt_file,
     predictions |-> predictions, ground_truth |-> EmptyMap, k |-> 1,
     m |-> 1, model_results |-> <<>>, all_results |-> <<>>,
     detailed_results |-> <<>>, summary |-> <<>>, best |-> "",
     exc |-> NoExc]

InitCompare ==
    /\ clock = 0
    /\ env = Credentials
    /\ index = <<>>
    /\ crops = {}
    /\ summaries = {}
    /\ run = [r \in Runs |-> FreshRun]
    /\ calls = [r \in Runs |-> NoCalls]
    /\ ad = NoCall
    /\ cons = ConsIdle
    /\ \/ /\ files = {}
          /\ cmp \in {CmpInput("calculate_morphological_metrics", g, p) :
                         g \in GtFiles, p \in PredictionLists}
       \/ /\ files \in ComparedDisks
          /\ cmp \in {CmpInput("evaluate_against_ground_truth", g, <<>>) :
                         g \in GtFiles}

NextCompare ==
    \/ MetricsLoad
    \/ MetricsNoGroundTruth
    \/ MetricsUnparsed
    \/ MetricsCompare
    \/ MetricsRaise
    \/ MetricsFinish
    \/ MetricsFinishEmpty
    \/ EvalLoad
    \/ EvalModelMissing
    \/ EvalModel
    \/ EvalModelRaise
    \/ EvalModelNoMetrics
    \/ EvalFinish
    \/ EvalFinishEmpty

SpecCompare == InitCompare /\ [][NextCompare]_vars

\* the diagrams with an annotation whose cuts.count is null
Incomplete ==
    {cmp.gt_file[k].diagram_id :
        k \in {j \in 1..Len(cmp.gt_file) :
                  cmp.gt_file[j].cuts[2]["count"] = NullV}}

Annotated ==
    {cmp.gt_file[k].diagram_id : k \in 1..Len(cmp.gt_file)} \ Incomplete

\* C10: an annotation whose cuts.count is null is counted in no per-model
\* denominator and in no per-diagram result of either comparator: the
\* number of evaluations of a model in calculate_morphological_metrics is
\* the number of its parsed predictions for completely annotated diagrams,
\* and the total of evaluate_against_ground_truth is the number of
\* completely annotated diagrams
C10_NullCountNotScored ==
    /\ cmp.pc # "idle" /\ cmp.which = "calculate_morphological_metrics" =>
          /\ \A d \in Entries(cmp.detailed_results) :
                d.diagram_id \notin Incomplete
          /\ \A row \in Entries(cmp.summary) :
                row.num_evaluations =
                    Cardinality({k \in 1..Len(cmp.predictions) :
                        /\ cmp.predictions[k].model = row.model
                        /\ ~Falsy(cmp.predictions[k].prediction)
                        /\ cmp.predictions[k].diagram_id \in Annotated})
    /\ cmp.pc # "idle" /\ cmp.which = "evaluate_against_ground_truth" =>
          \A r \in Entries(cmp.model_results) :
              /\ r.total_diagrams = Cardinality(Annotated)
              /\ r.evaluated_diagrams <= Cardinality(Annotated)
              /\ \A d \in r.per_diagram : d.diagram_id \notin Incomplete

-----------------------------------------------------------------------------
(* The accuracies of a model *)

\* the positions of the predictions of a model that are compared: the
\* diagram is annotated and the prediction was parsed
MorphEvaluated(model) ==
    {k \in 1..Len(cmp.predictions) :
        /\ cmp.predictions[k].model = model
        /\ cmp.predictions[k].diagram_id \in
              {cmp.gt_file[j].diagram_id : j \in 1..Len(cmp.gt_file)}
        /\ ~Falsy(cmp.predictions[k].prediction)}

\* the annotation of the diagram of prediction k
MorphTruth(k) == cmp.ground_truth[cmp.predictions[k].diagram_id]

\* 100 * matches / evaluated to two decimals, in hundredths of a point
Percent(matches, evaluated) == RoundDiv(10000 * matches, evaluated)

\* the run directory that evaluate_against_ground_truth reads for a model
RunOf(model) ==
    CHOOSE e \in Entries(EvaluatedRuns) : e.name = model

\* the diagrams of a model that evaluate_against_ground_truth compares
EvalEvaluated(model) ==
    DOMAIN cmp.ground_truth
        \cap DOMAIN load_model_evaluations(RunOf(model).dir)

\* C11: every field accuracy reported for a model is 100 * (the number of
\* the model's evaluated diagrams whose field matched) / (the number of
\* diagrams evaluated for that model), in both comparators, whatever the
\* number of annotated diagrams
C11_AccuracyOverEvaluated ==
    /\ cmp.pc = "done" /\ cmp.which = "calculate_morphological_metrics" =>
          \A row \in Entries(cmp.summary) :
              LET mine == MorphEvaluated(row.model)
                  n == Cardinality(mine)
                  hits(f) ==
                      Cardinality({k \in mine :
                          FieldMatch(cmp.predictions[k].prediction,
                                     MorphTruth(k), Fields[f])})
                  labels ==
                      Cardinality({k \in mine :
                          LabelsMatch(cmp.predictions[k].prediction,
                                      MorphTruth(k))})
              IN /\ n > 0
                 /\ row.num_evaluations = n
                 /\ row.cuts_count_acc = Percent(hits(1), n)
                 /\ row.cuts_nested_acc = Percent(hits(2), n)
                 /\ row.lines_count_acc = Percent(hits(3), n)
                 /\ row.lines_branching_acc = Percent(hits(4), n)
                 /\ row.spots_count_acc = Percent(hits(5), n)
                 /\ row.spots_labels_acc = Percent(labels, n)
    /\ cmp.pc # "idle" /\ cmp.which = "evaluate_against_ground_truth" =>
          \A row \in Entries(cmp.all_results) :
              LET evals == load_model_evaluations(RunOf(row.model).dir)
                  mine == EvalEvaluated(row.model)
                  n == Cardinality(mine)
                  hits(f) ==
                      Cardinality({id \in mine :
                          FieldMatch(evals[id], cmp.ground_truth[id],
                                     Fields[f])})
              IN /\ n > 0
                 /\ row.evaluated = <<n, Cardinality(DOMAIN cmp.ground_truth)>>
                 /\ row.cuts_count_acc = Percent(hits(1), n)
                 /\ row.cuts_nested_acc = Percent(hits(2), n)
                 /\ row.lines_count_acc = Percent(hits(3), n)
                 /\ row.lines_branching_acc = Percent(hits(4), n)
                 /\ row.spots_count_acc = Percent(hits(5), n)

\* a model that answered one of two annotated diagrams, and answered it
\* right: 100%, where a division by the two annotated diagrams gives 50%
C11_Witness ==
    /\ cmp.pc = "done"
    /\ cmp.which = "evaluate_against_ground_truth"
    /\ \E row \in Entries(cmp.summary) :
          /\ row.evaluated = <<1, 2>>
          /\ row.cuts_count_acc = 10000
          /\ row.spots_count_acc = 10000

-----------------------------------------------------------------------------
(* The result of one comparison *)

\* the flags of a row of calculate_morphological_metrics
MorphFlags(c) ==
    <<c.cuts_count, c.cuts_nested, c.lines_count, c.lines_branching,
      c.spots_count, c.spots_labels>>

\* the flags of a row of evaluate_against_ground_truth
EvalFlags(d) ==
    <<d.cuts_count_match, d.cuts_nested_match, d.lines_count_match,
      d.lines_branching_match, d.spots_count_match>>

\* C12: in every compared (diagram, model) pair, accuracy is the number of
\* matched scored fields over the number of scored fields, the six of them,
\* and exact_match is true exactly when the six flags (cuts count, cuts
\* nested, lines count, lines branching, spots count, spots labels) are
\* true
C12_ExactMatchIsAllFields ==
    /\ cmp.pc # "idle" /\ cmp.which = "calculate_morphological_metrics" =>
          \A d \in Entries(cmp.detailed_results) :
              /\ d.comparison.total = 6
              /\ d.comparison.correct = Count(MorphFlags(d.comparison))
    /\ cmp.pc # "idle" /\ cmp.which = "evaluate_against_ground_truth" =>
          \A r \in Entries(cmp.model_results) :
              \A d \in r.per_diagram :
                  LET pred == load_model_evaluations(RunOf(r.model).dir)
                                  [d.diagram_id]
                      gt == cmp.ground_truth[d.diagram_id]
                  IN LabelsExc(pred, gt) = NoExc =>
                        (d.exact_match <=>
                            /\ \A k \in 1..Len(EvalFlags(d)) : EvalFlags(d)[k]
                            /\ LabelsMatch(pred, gt))

-----------------------------------------------------------------------------
(* Null and absent values *)

\* the value of a scalar field on the side of the prediction, null when it
\* is absent
PredValue(pred, f) == Get(PredGroup(pred, f.group), f.key, NullV)

\* the value of a scalar field on the side of the annotation
TruthValue(gt, f) == gt[2][f.group][2][f.key]

\* a side of the comparison of field f is null or absent
OneSideNull(pred, gt, f) ==
    PredValue(pred, f) = NullV \/ TruthValue(gt, f) = NullV

\* C13: a scalar field that is null or absent in the prediction or in the
\* annotation, or in both, has its match flag false, in every compared
\* pair of both comparators, and the exact_match of the pair is false
C13_NullNeverMatches ==
    /\ cmp.pc # "idle" /\ cmp.which = "calculate_morphological_metrics" =>
          \A k \in 1..Len(cmp.predictions) :
              \A d \in Entries(cmp.detailed_results) :
                  /\ d.diagram_id = cmp.predictions[k].diagram_id
                  /\ d.model = cmp.predictions[k].model
                  => \A f \in 1..Len(Fields) :
                        OneSideNull(cmp.predictions[k].prediction,
                                    MorphTruth(k), Fields[f])
                            => ~MorphFlags(d.comparison)[f]
    /\ cmp.pc # "idle" /\ cmp.which = "evaluate_against_ground_truth" =>
          \A r \in Entries(cmp.model_results) :
              \A d \in r.per_diagram :
                  \A f \in 1..Len(Fields) :
                      OneSideNull(
                          load_model_evaluations(RunOf(r.model).dir)
                              [d.diagram_id],
                          cmp.ground_truth[d.diagram_id], Fields[f])
                          => ~EvalFlags(d)[f] /\ ~d.exact_match

-----------------------------------------------------------------------------
(* consolidate_predictions_unified.py morphological, then                  *)
(* calculate_morphological_metrics.py on the file it wrote                 *)

\* the answers in the run directories: a JSON object, a refusal, and an
\* object whose groups are numbers
PipelineContents ==
    [prompt : {PromptFor(NoneT, "morphological")},
     text : {TextJson, TextRefusal, TextFlat}]

PipelineSlots ==
    [dir : DiskDirs,
     d : {Segment(Row("diagram", "0", "0")),
          Segment(Row("diagram", "0", "1"))}]

PipelineDisks ==
    UNION {{{Stored(x, pick[x]) : x \in S} :
               pick \in [S -> PipelineContents]} :
             S \in {T \in SUBSET PipelineSlots : Cardinality(T) <= MaxFiles}}

\* ground_truth_morphological.json: empty, one diagram annotated, or both
\* with the second not yet filled in
PipelineTruths ==
    {<<>>, <<GtAnnotated(D0)>>, <<GtAnnotated(D0), GtTemplate(D1)>>}

InitPipeline ==
    /\ clock = 0
    /\ env = Credentials
    /\ index = <<>>
    /\ crops = {}
    /\ files \in PipelineDisks
    /\ summaries = {}
    /\ run = [r \in Runs |-> FreshRun]
    /\ calls = [r \in Runs |-> NoCalls]
    /\ ad = NoCall
    /\ cons = ConsIdle
    /\ cmp = NoComparison

\* calculate_morphological_metrics.py lines 164-170, reading
\* morphological_predictions.json as the consolidator left it
MetricsLoadConsolidated(gt_file) ==
    /\ cons.pc = "done"
    /\ cons.eval_type = "morphological"
    /\ cmp.pc = "idle"
    /\ cmp' = [CmpInput("calculate_morphological_metrics", gt_file,
                        cons.output[1].evaluations)
                  EXCEPT !.pc = "loop",
                         !.ground_truth = load_ground_truth(gt_file)]
    /\ UNCHANGED <<clock, env, index, crops, files, summaries, run, calls>>
    /\ UNCHANGED <<ad, cons>>

NextPipeline ==
    \/ \E date_filter \in {NoDate, 0} :
          ConsStart("morphological", date_filter)
    \/ ConsModelMissing
    \/ ConsNoEvalDirs
    \/ ConsEnterModel
    \/ \E name \in cons.todo : ConsSkipSeen(name)
    \/ \E name \in cons.todo : ConsTake(name)
    \/ ConsNextDir
    \/ ConsFinish
    \/ \E gt_file \in PipelineTruths : MetricsLoadConsolidated(gt_file)
    \/ MetricsNoGroundTruth
    \/ MetricsUnparsed
    \/ MetricsCompare
    \/ MetricsRaise
    \/ MetricsFinish
    \/ MetricsFinishEmpty

SpecPipeline == InitPipeline /\ [][NextPipeline]_vars

\* the result files the consolidator reads for a model: those of the run
\* directories of the model that pass the date filter
Consolidated(model) ==
    {f \in files :
        /\ f.dir.model = model.path
        /\ cons.date_filter # NoDate =>
              StampDate(f.dir.ts) = cons.date_filter
        /\ StartsWith(f.name, MS)
        /\ f.name # <<"summary", ".json">>}

\* a response with no brace holds no JSON object
NoJson(text) == ~Contains(text, "{")

\* C14: every result file the consolidator reads for the morphological
\* level has an entry for its diagram and model in the evaluations list,
\* whether or not its response parses; the entry of a response that holds
\* no JSON has prediction null; total_evaluations counts every entry; and
\* the metrics computed from the list compare no entry whose prediction is
\* null and count none in the evaluations of a model
C14_UnparsedIsKeptAsNull ==
    /\ cons.pc # "raised"
    /\ cons.pc = "done" =>
          /\ \A k \in 1..Len(ConsolidatorMODELS) :
                \A f \in Consolidated(ConsolidatorMODELS[k]) :
                    EntriesOf(cons.output[1].evaluations, Stem(f.name),
                              ConsolidatorMODELS[k].name) # {}
          /\ \A e \in Entries(cons.output[1].evaluations) :
                NoJson(e.raw_response) => e.prediction = NullV
          /\ cons.output[1].metadata.total_evaluations
                = Len(cons.output[1].evaluations)
    /\ cmp.pc # "idle" =>
          /\ cmp.predictions = cons.output[1].evaluations
          /\ \A d \in Entries(cmp.detailed_results) :
                \A k \in EntriesOf(cmp.predictions, d.diagram_id, d.model) :
                    cmp.predictions[k].prediction # NullV
          /\ \A row \in Entries(cmp.summary) :
                row.num_evaluations = Cardinality(MorphEvaluated(row.model))

\* a model with a refusal for one diagram and a JSON answer for the other:
\* two entries, one of them null, and one evaluation in the metrics
C14_Witness ==
    /\ cmp.pc = "done"
    /\ \E e \in Entries(cons.output[1].evaluations) :
          /\ e.raw_response = TextRefusal
          /\ e.prediction = NullV
          /\ e.diagram_id \in DOMAIN cmp.ground_truth
          /\ \E row \in Entries(cmp.summary) :
                /\ row.model = e.model
                /\ row.num_evaluations = 1
    /\ cons.output[1].metadata.total_evaluations = 2

-----------------------------------------------------------------------------
(* extract_json_from_evaluation on answers of the morphological shape *)

\* the label strings of the answers, some of them named as the keys are
LabelTokens == {"\"man\"", "\"cuts\"", "\"lines\"", "\"spots\""}

\* a, b, c as a JSON array body: a, b, c separated by commas
RECURSIVE Joined(_)
Joined(toks) ==
    IF toks = <<>> THEN <<>>
    ELSE IF Len(toks) = 1 THEN toks
    ELSE <<Head(toks), ",">> \o Joined(Tail(toks))

\* the text of a JSON object with the nested cuts, lines and spots objects
MorphText(cuts_count, nested, lines_count, branching, spots_count, labels) ==
    <<"{", "\"cuts\"", ":", "{", "\"count\"", ":", cuts_count, ",",
      "\"nested\"", ":", nested, "}", ",", "\"lines\"", ":", "{",
      "\"count\"", ":", lines_count, ",", "\"branching\"", ":", branching,
      "}", ",", "\"spots\"", ":", "{", "\"count\"", ":", spots_count, ",",
      "\"labels\"", ":", "[">> \o Joined(labels) \o <<"]", "}", "}">>

MorphTexts ==
    {MorphText(c, n, l, b, sc, labels) :
        c \in {"2", "null"}, n \in {"true", "null"}, l \in {"1"},
        b \in {"false"}, sc \in {"1", "3"},
        labels \in UNION {[1..k -> LabelTokens] : k \in 0..MaxLabels}}

\* the text inside a fenced code block marked json
Fenced(t) == <<Fence, "json", "\n">> \o t \o <<"\n", Fence>>

InitExtract ==
    /\ clock = 0
    /\ env = Credentials
    /\ index = <<>>
    /\ crops = {}
    /\ files = {}
    /\ summaries = {}
    /\ run = [r \in Runs |-> FreshRun]
    /\ calls = [r \in Runs |-> NoCalls]
    /\ ad = NoCall
    /\ cons \in [pc : {"input"}, text : MorphTexts]
    /\ cmp = NoComparison

\* the function applied to the text and to the text in a fenced block
Extract ==
    /\ cons.pc = "input"
    /\ cons' = [pc |-> "extracted", text |-> cons.text,
                unwrapped |-> extract_json_from_evaluation(cons.text),
                fenced |-> extract_json_from_evaluation(Fenced(cons.text))]
    /\ UNCHANGED <<clock, env, index, crops, files, summaries, run, calls>>
    /\ UNCHANGED <<ad, cmp>>

NextExtract == Extract

SpecExtract == InitExtract /\ [][NextExtract]_vars

\* C15: extract_json_from_evaluation gives the same structure for a JSON
\* object of the morphological shape inside a json fenced code block as for
\* the same text unwrapped, and it is the structure the text denotes
C15_FencedSameAsUnwrapped ==
    cons.pc = "extracted" =>
        /\ cons.fenced = JsonLoads(cons.text).val
        /\ cons.unwrapped = cons.fenced

-----------------------------------------------------------------------------
(* load_diagram_segments on an index, a crop directory, a limit and a page *)

\* rows of two pages: diagrams and a text block
LoadRows ==
    Rows \cup {[Row("diagram", "0", "0") EXCEPT
                  !.page_filename = <<"seq16", ".jpg">>]}

LoadIndexes == UNION {[1..n -> LoadRows] : n \in 0..MaxRows}

LoadLimits == {NoLimit, 0, 1, 2}

LoadPages == {NoneT, <<"seq15">>, <<"seq16">>}

InitLoad ==
    /\ clock = 0
    /\ env = Credentials
    /\ index \in LoadIndexes
    /\ crops \in SUBSET {CropPath(row) : row \in LoadRows}
    /\ files = {}
    /\ summaries = {}
    /\ run = [r \in Runs |-> FreshRun]
    /\ calls = [r \in Runs |-> NoCalls]
    /\ ad = NoCall
    /\ cons = ConsIdle
    /\ cmp \in [pc : {"input"}, limit : LoadLimits, page_filter : LoadPages]

\* one call of load_diagram_segments
LoadSegments ==
    /\ cmp.pc = "input"
    /\ cmp' = [pc |-> "loaded", limit |-> cmp.limit,
               page_filter |-> cmp.page_filter,
               diagrams |-> load_diagram_segments(index, crops, cmp.limit,
                                                  cmp.page_filter)]
    /\ UNCHANGED <<clock, env, index, crops, files, summaries, run, calls>>
    /\ UNCHANGED <<ad, cons>>

NextLoad == LoadSegments

SpecLoad == InitLoad /\ [][NextLoad]_vars

\* the row is a diagram of the page asked for whose crop file exists
Eligible(row) ==
    /\ row.segment_class = "diagram"
    /\ cmp.page_filter # NoneT =>
          Remove(row.page_filename, ".jpg") = cmp.page_filter
    /\ CropPath(row) \in crops

\* the eligible rows of the index, in index order
EligibleRows == SelectSeq(index, Eligible)

\* C16: load_diagram_segments returns, in index order, the first `limit`
\* eligible rows of the index, all of them when no limit is given; never
\* more than a given limit, and never a segment whose crop is absent
C16_FirstLimitEligibleRows ==
    cmp.pc = "loaded" =>
        LET n == IF cmp.limit = NoLimit \/ cmp.limit > Len(EligibleRows)
                 THEN Len(EligibleRows) ELSE cmp.limit
        IN /\ cmp.diagrams = [k \in 1..n |-> Segment(EligibleRows[k])]
           /\ cmp.limit # NoLimit => Len(cmp.diagrams) <= cmp.limit
           /\ \A k \in 1..Len(cmp.diagrams) :
                 cmp.diagrams[k].crop_path \in crops

-----------------------------------------------------------------------------
(* A batch of a comparator runs to its end *)

\* the models or predictions the comparator has not yet gone through
Remaining ==
    IF cmp.which = "evaluate_against_ground_truth"
    THEN {m \in 1..Len(EvaluatedRuns) : m >= cmp.m}
    ELSE {k \in 1..Len(cmp.predictions) : k >= cmp.k}

\* C17: no comparator ends a batch early because of one item: whatever
\* the predictions are (null, fields missing, cuts, lines or spots that are
\* not objects), and for a model whose run directory exists with no
\* evaluated diagram, a comparator stops with an exception only when no
\* model and no prediction is left to process
C17_BatchNeverEndsEarly == cmp.pc = "raised" => Remaining = {}

-----------------------------------------------------------------------------
(* evaluate_diagram on the configuration of a model *)

\* the api families evaluate_diagram has a branch for
Families == {"anthropic", "google", "ollama", "academiccloud", "openrouter"}

\* the entries of the table, and an entry that declares a family of its own
DeclaredConfigs ==
    Configs \cup {[model_id |-> <<"pixtral", "-", "12b">>,
                   api |-> "mistral", max_tokens |-> 2048]}

InitDispatch ==
    /\ clock = 0
    /\ env \in SUBSET Credentials
    /\ index = <<>>
    /\ crops = {}
    /\ files = {}
    /\ summaries = {}
    /\ run = [r \in Runs |-> FreshRun]
    /\ calls = [r \in Runs |-> NoCalls]
    /\ ad = NoCall
    /\ cons = ConsIdle
    /\ cmp = NoComparison

\* line 576: one call of evaluate_diagram
DispatchCall(client, w, cfg) ==
    /\ FirstCall
    /\ ad' = [fn |-> "evaluate_diagram", api |-> cfg.api, world |-> w,
              out |-> Dispatch(cfg, client, env, w)]

NextDispatch ==
    \E client \in {"client", "None"}, w \in AllWorlds,
       cfg \in DeclaredConfigs : DispatchCall(client, w, cfg)

SpecDispatch == InitDispatch /\ [][NextDispatch]_vars

\* C18: dispatching for a model whose declared api family is none of the
\* recognised ones is a hard failure: an exception leaves evaluate_diagram
\* (and ends the run), no ordinary result is returned to the driver
C18_UnknownFamilyIsHardFailure ==
    ad # NoCall /\ ad.api \notin Families => ad.out.exc # NoneT

-----------------------------------------------------------------------------
(* The order of the per-model summary *)

\* the share of a model's compared diagrams in which every field matched,
\* in hundredths of a point
ExactMatchOf(row) ==
    IF cmp.which = "evaluate_against_ground_truth" THEN row.exact_match
    ELSE LET mine == {k \in 1..Len(cmp.detailed_results) :
                         cmp.detailed_results[k].model = row.model}
             exact == {k \in mine :
                         cmp.detailed_results[k].comparison.correct =
                             cmp.detailed_results[k].comparison.total}
         IN RoundDiv(10000 * Cardinality(exact), Cardinality(mine))

\* the models in the order in which the comparator met them
Inserted ==
    IF cmp.which = "evaluate_against_ground_truth"
    THEN [k \in 1..Len(cmp.all_results) |-> cmp.all_results[k].model]
    ELSE [k \in 1..Len(cmp.model_results) |-> cmp.model_results[k].model]

InsertedAt(model) == CHOOSE k \in 1..Len(Inserted) : Inserted[k] = model

\* C19: the per-model summary of a comparator lists the models by
\* descending exact_match percentage, models of equal exact_match in the
\* order in which they were inserted, and the model reported as the best
\* is the first of the summary
C19_SummaryByExactMatch ==
    cmp.pc = "done" =>
        /\ \A i, j \in 1..Len(cmp.summary) :
              i < j =>
                  /\ ExactMatchOf(cmp.summary[i]) >=
                         ExactMatchOf(cmp.summary[j])
                  /\ ExactMatchOf(cmp.summary[i]) =
                         ExactMatchOf(cmp.summary[j])
                       => InsertedAt(cmp.summary[i].model)
                              < InsertedAt(cmp.summary[j].model)
        /\ cmp.best = cmp.summary[1].model

-----------------------------------------------------------------------------
(* A segment whose result file is already there *)

\* the driver is at a segment whose result file is in its output directory
AtExisting(r) ==
    /\ run[r].pc = "loop"
    /\ run[r].i <= Len(run[r].diagrams)
    /\ FileExists(Dir(r), ResultFileName(DiagramId(Current(r))))

\* the step of the driver at that segment: no adapter is invoked, no file
\* changes, successful grows by one and nothing else is counted
Skipped(r) ==
    /\ calls'[r].invoked = calls[r].invoked
    /\ calls'[r].requests = calls[r].requests
    /\ files' = files
    /\ run'[r].successful = run[r].successful + 1
    /\ run'[r].failed = run[r].failed
    /\ run'[r].pc = "loop"
    /\ run'[r].i = run[r].i + 1

\* C20 as stated: whenever the driver reaches a segment whose result file
\* is already in the output directory of the run, it invokes no adapter
\* for it, leaves the file as it is and adds exactly one to successful
C20_ExistingIsSkipped ==
    [][\A r \in Runs :
          AtExisting(r) /\ run'[r] # run[r] => Skipped(r)]_vars

\* C20, amended: the same for a segment whose crop is still on the disk
\* when the driver reaches it
C20_ExistingWithCropIsSkipped ==
    [][\A r \in Runs :
          AtExisting(r) /\ Current(r).crop_path \in crops
              /\ run'[r] # run[r] => Skipped(r)]_vars

\* a run went past a segment of an earlier run without invoking anything
C20_Witness ==
    \E r \in Runs :
        /\ run[r].successful = 1
        /\ calls[r].trace = <<"skipped">>
        /\ calls[r].invoked = <<>>
        /\ \E f \in files : f.dir = Dir(r) /\ f.writer # r

-----------------------------------------------------------------------------
(* The sleeps of a run *)

\* the adapter evaluations a run has made so far
Evaluations(r) ==
    Cardinality({k \in 1..Len(calls[r].trace) :
                    calls[r].trace[k] \in {"ok", "failed"}})

\* C21: in a finished run a sleep followed every adapter evaluation but
\* the last one, whatever segments were skipped or had lost their crop:
\* the run slept once less than it evaluated, and not at all when it
\* evaluated nothing
C21_NoSleepAfterLastEvaluation ==
    \A r \in Runs :
        run[r].pc = "done" =>
            run[r].sleeps =
                IF Evaluations(r) = 0 THEN 0 ELSE Evaluations(r) - 1

-----------------------------------------------------------------------------
(* Results are on the disk as soon as they are obtained *)

\* the result file of an entry of results is in the run directory and
\* holds the response of the entry
OnDisk(r, e) ==
    \E f \in files :
        /\ f.dir = Dir(r)
        /\ f.name = ResultFileName(e.diagram_id)
        /\ f.content.evaluation = e.response

\* C22: at every point of a run, every diagram whose evaluation has
\* returned success has its result file in the run directory: it is there
\* when the adapter is invoked for a later diagram and after the run
C22_SuccessIsPersistedAtOnce ==
    run["r1"].pc \in {"loop", "evaluating", "done"} =>
        \A e \in Entries(run["r1"].results) : e.success => OnDisk("r1", e)

\* the adapter is invoked for the second diagram after the first succeeded
C22_Witness ==
    /\ run["r1"].pc = "evaluating"
    /\ Len(calls["r1"].invoked) = 2
    /\ Len(run["r1"].results) = 1
    /\ run["r1"].results[1].success
    /\ OnDisk("r1", run["r1"].results[1])

-----------------------------------------------------------------------------
(* A driver that is killed, and the pass that resumes its run directory *)

\* lines 580-588: the keys of a result file in the order json.dump writes
\* them
ResultKeys ==
    <<"manuscript_id", "page_filename", "segment_index", "crop_path",
      "prompt", "evaluation", "model">>

\* the keys that are in the file when the writer is stopped
WrittenKeys == {1, 4}

\* lines 590-591: open(output_file, 'w') has created the file and json.dump
\* has written the first n keys of it
Truncated(content, n) ==
    [key \in {ResultKeys[k] : k \in 1..n} |-> content[key]]

\* the process is killed while it writes the result file of a success
KillMidWrite(r, world, n) ==
    /\ run[r].pc = "evaluating"
    /\ LET d == Current(r)
           w == [world EXCEPT !.image_ok = @ /\ d.crop_path \in crops]
           out == evaluate_diagram(run[r].client, env, w, run[r].model_name)
           result == out.result
       IN /\ out.exc = NoneT
          /\ result.success
          /\ files' =
                 {f \in Persist(files, Dir(r), d, run[r].prompt, result, r) :
                     ~(f.dir = Dir(r)
                         /\ f.name = ResultFileName(DiagramId(d)))}
                 \cup {[g EXCEPT !.content = Truncated(@, n)] :
                          g \in {f \in Persist(files, Dir(r), d,
                                                run[r].prompt, result, r) :
                                    /\ f.dir = Dir(r)
                                    /\ f.name =
                                           ResultFileName(DiagramId(d))}}
          /\ calls' = [calls EXCEPT
                        ![r].requests = @ + (IF out.sent THEN 1 ELSE 0)]
    /\ run' = [run EXCEPT ![r].pc = "killed"]
    /\ UNCHANGED <<clock, env, index, crops, summaries>>
    /\ UNCHANGED others

\* the process is killed at any other point of the loop
Kill(r) ==
    /\ run[r].pc \in {"loop", "evaluating"}
    /\ run' = [run EXCEPT ![r].pc = "killed"]
    /\ UNCHANGED <<clock, env, index, crops, files, summaries, calls>>
    /\ UNCHANGED others

\* the pass that resumes starts once the first process is no more
Resume(r, model_name) ==
    /\ r = "r2" => run["r1"].pc \in {"killed", "done"}
    /\ StartInOrder(r, model_name)

NextResume ==
    \/ Tick(Runs)
    \/ \E c \in crops : RemoveCrop(c)
    \/ \E r \in Runs, m \in PairModels : Resume(r, m)
    \/ \E r \in Runs : CropMissing(r)
    \/ \E r \in Runs : SkipExisting(r)
    \/ \E r \in Runs : Invoke(r)
    \/ \E r \in Runs, w \in DriverWorlds : Evaluated(r, w)
    \/ \E r \in Runs, w \in DriverWorlds, n \in WrittenKeys :
           KillMidWrite(r, w, n)
    \/ \E r \in Runs : Kill(r)
    \/ \E r \in Runs : Summarize(r)

SpecResume == InitPair /\ [][NextResume]_vars

\* the file holds every key of a result
Complete(f) == DOMAIN f.content = {ResultKeys[k] : k \in 1..Len(ResultKeys)}

\* the run counted the k-th segment of its list as successful
CountedSuccessful(r, k) ==
    k <= Len(calls[r].trace) /\ calls[r].trace[k] \in {"ok", "skipped"}

\* C23: whenever an earlier process was killed, even in the middle of
\* writing a result file, a pass that ends has a complete result file in
\* its run directory for every diagram it counted as successful
C23_ResumeNeverCountsPartialFile ==
    \A r \in Runs :
        run[r].pc = "done" =>
            \A k \in 1..Len(run[r].diagrams) :
                CountedSuccessful(r, k) =>
                    \E f \in files :
                        /\ f.dir = Dir(r)
                        /\ f.name =
                               ResultFileName(DiagramId(run[r].diagrams[k]))
                        /\ Complete(f)

-----------------------------------------------------------------------------
(* Which of several result files of a diagram the consolidator takes *)

\* result files of two diagrams of the manuscript in the run directories
FirstSeenSlots ==
    [dir : DiskDirs,
     d : {Segment(Row("diagram", "0", "0")),
          Segment(Row("diagram", "0", "1"))}]

FirstSeenDisks ==
    UNION {{{Stored(x, pick[x]) : x \in S} : pick \in [S -> DiskContents]} :
             S \in {T \in SUBSET FirstSeenSlots : Cardinality(T) <= MaxFiles}}

InitFirstSeen ==
    /\ clock = 0
    /\ env = Credentials
    /\ index = <<>>
    /\ crops = {}
    /\ files \in FirstSeenDisks
    /\ summaries = {}
    /\ run = [r \in Runs |-> FreshRun]
    /\ calls = [r \in Runs |-> NoCalls]
    /\ ad = NoCall
    /\ cons = ConsIdle
    /\ cmp = NoComparison

SpecFirstSeen == InitFirstSeen /\ [][NextConsolidate]_vars

\* the result files of a diagram in the run directories of a model that
\* the pass looks at and whose prompt passes the filter of the level
Candidates(model, diagram_id) ==
    {f \in files :
        /\ f.dir.model = model.path
        /\ cons.date_filter # NoDate =>
              StampDate(f.dir.ts) = cons.date_filter
        /\ f.name = ResultFileName(diagram_id)
        /\ StartsWith(f.name, MS)
        /\ ConsConfig.prompt_filter # NoneT =>
              StartsWith(f.content.prompt, ConsConfig.prompt_filter)}

\* the candidate of the earliest run directory
Earliest(F) == CHOOSE f \in F : \A g \in F : f.dir.ts <= g.dir.ts

\* the entries of the first candidates, one for each model and diagram
FirstSeen ==
    {Evaluation(Stem(f.name), model.name, f.content, ConsConfig) :
        <<model, f>> \in
            {x \in Entries(ConsolidatorMODELS) \X files :
                /\ Candidates(x[1], Stem(x[2].name)) # {}
                /\ x[2] = Earliest(Candidates(x[1], Stem(x[2].name)))}}

\* C24: the entries the unified consolidator emits are, for each model and
\* diagram, the entry of the first run directory in the order of the
\* directory names (the order of their time stamps) whose file passes the
\* prompt filter, and no other entry; the order in which a directory
\* lists its files does not change them
C24_FirstDirectoryWins ==
    cons.pc = "done" => Entries(cons.output[1].evaluations) = FirstSeen

\* two run directories of a model hold different answers for a diagram and
\* the answer of the earlier one is emitted
C24_Witness ==
    /\ cons.pc = "done"
    /\ \E f, g \in files :
          /\ f.dir.model = g.dir.model
          /\ f.dir.ts < g.dir.ts
          /\ f.name = g.name
          /\ f.content.evaluation # g.content.evaluation
          /\ g \in Candidates(ConsolidatorMODELS[1], Stem(g.name))
          /\ \E e \in Entries(cons.output[1].evaluations) :
                /\ e.diagram_id = Stem(f.name)
                /\ e = Evaluation(Stem(f.name), ConsolidatorMODELS[1].name,
                                  f.content, ConsConfig)

-----------------------------------------------------------------------------
(* The driver with providers that answer without a text *)

\* answers that arrive without a transport error: with the text, with no
\* text field or a null content, with no choice or candidate at all
ProviderWorlds ==
    {[image_ok |-> TRUE, net |-> "ok", status |-> "200", body |-> b,
      text |-> TextJson] : b \in {"text", "null_text", "empty_list"}}

NextProvider ==
    \/ Tick({"r1"})
    \/ \E c \in crops : RemoveCrop(c)
    \/ \E m \in ModelArgs : UnknownModel("r1", m)
    \/ \E m \in ModelArgs : MissingKey("r1", m)
    \/ \E m \in ModelArgs, k \in PromptKeys, l \in Limits :
           StartRun("r1", m, k, l)
    \/ CropMissing("r1")
    \/ SkipExisting("r1")
    \/ Invoke("r1")
    \/ \E w \in ProviderWorlds : Evaluated("r1", w)
    \/ Summarize("r1")

SpecProvider == Init /\ [][NextProvider]_vars

\* a response that is no usable text: None or the empty string
Unusable(response) == response = NoneT \/ response = <<>>

\* C25: an answer without usable text is a failed result: no entry of
\* results is a success without text, every such entry is counted under
\* failed, also in the summary, and no result file holds an empty
\* evaluation
C25_NoTextIsFailure ==
    LET unusable == {k \in 1..Len(run["r1"].results) :
                        Unusable(run["r1"].results[k].response)}
    IN /\ \A k \in unusable : ~run["r1"].results[k].success
       /\ run["r1"].failed >= Cardinality(unusable)
       /\ \A s \in summaries :
             s.summary.failed >=
                 Cardinality({k \in 1..Len(s.summary.results) :
                                 Unusable(s.summary.results[k].response)})
       /\ \A f \in files : ~Unusable(f.content.evaluation)

-----------------------------------------------------------------------------
(* The two counters of a run *)

\* C26: at every iteration boundary of the loop successful + failed is the
\* number of segments processed so far, and in a written summary
\* successful + failed = total_diagrams
C26_CountersAddUp ==
    /\ run["r1"].pc \in {"loop", "done"} =>
          run["r1"].successful + run["r1"].failed = run["r1"].i - 1
    /\ \A s \in summaries :
          s.summary.successful + s.summary.failed = s.summary.total_diagrams

\* a summary of a run in which a segment succeeded and another did not
C26_Witness ==
    \E s \in summaries :
        /\ s.summary.successful = 1
        /\ s.summary.failed = 1
        /\ s.summary.total_diagrams = 2
        /\ "missing" \in {calls["r1"].trace[k] :
                              k \in 1..Len(calls["r1"].trace)}

-----------------------------------------------------------------------------
(* The results list of a run *)

\* the positions of the segment list at which the adapter returned
EvaluatedPositions(r) ==
    SelectSeq([p \in 1..Len(calls[r].trace) |-> p],
              LAMBDA p : calls[r].trace[p] \in {"ok", "failed"})

\* the diagram ids of a results list
IdsOf(results) == [k \in 1..Len(results) |-> results[k].diagram_id]

\* C27: the results list has exactly one entry for each adapter invocation
\* of the run, in the order of the segment list; a skipped segment and a
\* segment whose crop is missing add none, so the results of the summary
\* are at most total_diagrams, and as many only when every segment was
\* sent to an adapter
C27_OneResultPerInvocation ==
    /\ run["r1"].pc \in {"loop", "done"} =>
          /\ IdsOf(run["r1"].results) = calls["r1"].invoked
          /\ IdsOf(run["r1"].results) =
                 [k \in 1..Len(EvaluatedPositions("r1")) |->
                     DiagramId(run["r1"].diagrams[EvaluatedPositions("r1")[k]])]
    /\ run["r1"].pc = "done" =>
          \A s \in summaries :
              /\ s.summary.results = run["r1"].results
              /\ Len(s.summary.results) <= s.summary.total_diagrams
              /\ Len(s.summary.results) = s.summary.total_diagrams
                    <=> \A p \in 1..Len(calls["r1"].trace) :
                           calls["r1"].trace[p] \in {"ok", "failed"}

\* a finished run that evaluated one of two segments and skipped the other
C27_Witness ==
    /\ run["r1"].pc = "done"
    /\ Len(run["r1"].diagrams) = 2
    /\ Len(run["r1"].results) = 1
    /\ calls["r1"].trace \in {<<"ok", "skipped">>, <<"missing", "failed">>}

-----------------------------------------------------------------------------
(* The identifiers of the segments of an index *)

\* rows of diagrams whose manuscript and page names may hold an underscore
\* and whose page name may lack the suffix
IdentityRows ==
    [segment_class : {"diagram"}, segment_class_id : {<<"0">>},
     segment_index : {<<"0">>, <<"1">>},
     page_filename : {<<"seq15", ".jpg">>, <<"seq14", "_", "seq15", ".jpg">>,
                      <<"seq15">>},
     manuscript_id : {MS, MS \o <<"_", "seq14">>, <<"hou02614c00460">>}]

InitIdentity ==
    /\ clock = 0
    /\ env = Credentials
    /\ index \in [1..2 -> IdentityRows]
    /\ crops = {CropPath(index[k]) : k \in 1..Len(index)}
    /\ files = {}
    /\ summaries = {}
    /\ run = [r \in Runs |-> FreshRun]
    /\ calls = [r \in Runs |-> NoCalls]
    /\ ad = NoCall
    /\ cons = ConsIdle
    /\ cmp = NoComparison

\* one invocation for claude with the default prompt and no limit
NextIdentity ==
    \/ \E c \in crops : RemoveCrop(c)
    \/ \E l \in {NoLimit} : StartRun("r1", "claude", "morphological", l)
    \/ CropMissing("r1")
    \/ SkipExisting("r1")
    \/ Invoke("r1")
    \/ \E w \in DriverWorlds : Evaluated("r1", w)
    \/ Summarize("r1")

SpecIdentity == InitIdentity /\ [][NextIdentity]_vars

\* the two segments differ in manuscript, page or index
Differ(d, e) ==
    \/ d.manuscript_id # e.manuscript_id
    \/ d.page_filename # e.page_filename
    \/ d.segment_index # e.segment_index

\* the file the run skipped the k-th segment for was written for it
SkippedForItself(k) ==
    calls["r1"].trace[k] = "skipped" =>
        \A f \in files :
            f.dir = Dir("r1")
                /\ f.name = ResultFileName(DiagramId(run["r1"].diagrams[k]))
            => ~Differ(f.content, run["r1"].diagrams[k])

\* manuscript and index hold no underscore, and the page name is a stem
\* followed by its only .jpg
WellFormed(d) ==
    /\ \A k \in 1..Len(d.manuscript_id) : d.manuscript_id[k] # "_"
    /\ \A k \in 1..Len(d.segment_index) : d.segment_index[k] # "_"
    /\ d.page_filename =
           Remove(d.page_filename, ".jpg") \o <<".jpg">>

-----------------------------------------------------------------------------
(* The consolidator over result files of the three levels *)

Levels == {"morphological", "indexical", "symbolic"}

\* what the driver stores when it is run with --prompt L
LevelContents ==
    [prompt : {PromptFor(NoneT, L) : L \in Levels}, text : {TextJson}]

LevelDisks ==
    UNION {{{Stored(x, pick[x]) : x \in S} : pick \in [S -> LevelContents]} :
             S \in {T \in SUBSET FirstSeenSlots : Cardinality(T) <= MaxFiles}}

InitLevels ==
    /\ clock = 0
    /\ env = Credentials
    /\ index = <<>>
    /\ crops = {}
    /\ files \in LevelDisks
    /\ summaries = {}
    /\ run = [r \in Runs |-> FreshRun]
    /\ calls = [r \in Runs |-> NoCalls]
    /\ ad = NoCall
    /\ cons = ConsIdle
    /\ cmp = NoComparison

SpecLevels == InitLevels /\ [][NextConsolidate]_vars

\* the result files of a diagram that the pass looks at for a model and
\* that were produced with the registry prompt of the level
LevelCandidates(model, diagram_id) ==
    {f \in files :
        /\ f.dir.model = model.path
        /\ cons.date_filter # NoDate =>
              StampDate(f.dir.ts) = cons.date_filter
        /\ f.name = ResultFileName(diagram_id)
        /\ StartsWith(f.name, MS)
        /\ f.content.prompt = PROMPTS[cons.eval_type]}

\* C29: the output of the unified consolidator for a level holds the
\* entries of the result files produced with the registry prompt of that
\* level, the first seen for each model and diagram, and of no file
\* produced with another prompt
C29_OnlyAndAllFilesOfTheLevel ==
    cons.pc = "done" =>
        Entries(cons.output[1].evaluations) =
            {Evaluation(Stem(f.name), model.name, f.content, ConsConfig) :
                <<model, f>> \in
                    {x \in Entries(ConsolidatorMODELS) \X files :
                        /\ LevelCandidates(x[1], Stem(x[2].name)) # {}
                        /\ x[2] = Earliest(LevelCandidates(x[1],
                                                           Stem(x[2].name)))}}

-----------------------------------------------------------------------------
(* The counts of one model against the annotations *)

\* the per-field counts of a result of evaluate_model
CorrectCounts(res) ==
    <<res.cuts_count_correct, res.cuts_nested_correct,
      res.lines_count_correct, res.lines_branching_correct,
      res.spots_count_correct>>

\* the percentages of a row of calculate_metrics, in hundredths
Percentages(row) ==
    <<row.coverage, row.exact_match, row.cuts_count_acc, row.cuts_nested_acc,
      row.lines_count_acc, row.lines_branching_acc, row.spots_count_acc>>

\* C30: in every result that evaluate_model returns, exact_match is at most
\* each per-field correct count, each of which is at most
\* evaluated_diagrams, which is at most total_diagrams; evaluated_diagrams
\* and the missing evaluations add up to total_diagrams; per_diagram has
\* one entry per evaluated diagram; and the coverage and every accuracy
\* that calculate_metrics computes from it lie between 0 and 100
C30_CountsAreOrdered ==
    cmp.which = "evaluate_against_ground_truth" =>
        /\ \A res \in Entries(cmp.model_results) :
              /\ \A k \in 1..Len(CorrectCounts(res)) :
                    /\ res.exact_match <= CorrectCounts(res)[k]
                    /\ CorrectCounts(res)[k] <= res.evaluated_diagrams
              /\ res.evaluated_diagrams <= res.total_diagrams
              /\ res.evaluated_diagrams
                    + Cardinality(res.missing_evaluations)
                 = res.total_diagrams
              /\ Cardinality(res.per_diagram) = res.evaluated_diagrams
              /\ res.evaluated_diagrams > 0 =>
                    \A k \in 1..Len(Percentages(calculate_metrics(res))) :
                        Percentages(calculate_metrics(res))[k] \in 0..10000
        /\ \A row \in Entries(cmp.all_results) :
              \A k \in 1..Len(Percentages(row)) :
                  Percentages(row)[k] \in 0..10000

\* a model that answered one of two annotated diagrams with some fields
\* right and some wrong
C30_Witness ==
    /\ cmp.which = "evaluate_against_ground_truth"
    /\ \E res \in Entries(cmp.model_results) :
          /\ res.total_diagrams = 2
          /\ res.evaluated_diagrams = 1
          /\ Cardinality(res.missing_evaluations) = 1
          /\ res.exact_match = 0
          /\ \E k \in 1..Len(CorrectCounts(res)) : CorrectCounts(res)[k] = 1
          /\ \E k \in 1..Len(CorrectCounts(res)) : CorrectCounts(res)[k] = 0

====
